---- MODULE Spec2Model ----
(***************************************************************************)
(* A model of the claude-tasks plugin (src/claude-tasks/src): the file     *)
(* watcher thread, the event channel, the mutex-guarded SyncState and the  *)
(* consumer callbacks (on_config_loaded, on_event, execute_with_host) that *)
(* turn drained SyncEvents into FfiCommands.                               *)
(*                                                                         *)
(* Strings are sequences of tokens, so format!() is concatenation and two  *)
(* different inputs can still produce the same string.  Option<T> is a     *)
(* sequence of length 0 (None) or 1 (Some).                                *)
(***************************************************************************)
EXTENDS Integers, Sequences, FiniteSets, TLC

\* ------------------------------------------------------------------ bounds
MaxTask == 2
MaxWrites == 2
MaxGraph == 3       \* tasks handed to build_hierarchy run alone
MaxBlockers == 2    \* length of a blocked_by list handed to build_hierarchy
MaxThresholdMinutes == 1   \* thresholds handed to the staleness tracker run alone
MaxTime == 125             \* seconds the clock of that run advances
MaxPaths == 2              \* paths of a notification handed to translate_event run alone
MaxShutdowns == 3          \* calls of WatcherHandle::shutdown (the last one by Drop) on one handle
MaxEntries == 4            \* entries of a directory handed to scan_tasks_directory run alone
MaxBatch == 2           \* events in one debounced batch
MaxResyncWrites == 1    \* writes of the external writer while the tasklists are switched
MaxLoop == 2            \* events in the batch of one poll, for the locks
MaxFileEvents == 3      \* events processed for one task file

\* ------------------------------------------------------------- strings
Digits == <<"1", "2", "3", "4", "5", "6", "7", "8", "9">>

RECURSIVE Join(_, _)
Join(parts, sep) ==
    IF Len(parts) = 0 THEN <<>>
    ELSE IF Len(parts) = 1 THEN parts[1]
    ELSE parts[1] \o sep \o Join(Tail(parts), sep)

\* id.parse::<u32>().unwrap_or(0) on a one-token numeral
ParseU32(s) ==
    IF Len(s) = 1 /\ \E n \in 1..Len(Digits) : Digits[n] = s[1]
    THEN CHOOSE n \in 1..Len(Digits) : Digits[n] = s[1]
    ELSE 0

None == <<>>
Some(x) == <<x>>

RangeOf(seq) == {seq[i] : i \in 1..Len(seq)}

\* --------------------------------------------------------- claude_task.rs
ClaudeTask(id, subject, status, blocked_by) ==
    [id |-> id, subject |-> subject, status |-> status, blocked_by |-> blocked_by]

map_status_to_state(status) ==
    CASE status = "pending" -> "Empty"
      [] status = "in_progress" -> "InProgress"
      [] status = "completed" -> "Checked"
      [] OTHER -> "Empty"

\* ------------------------------------------------------------ commands.rs
header_id(tasklist_id) == <<"claude-header-">> \o tasklist_id

\* task_todo_id that leaves the tasklist out of the id
task_todo_id_no_tasklist(tasklist_id, task_id) == <<"claude-">> \o task_id

task_todo_id(tasklist_id, task_id) ==
    <<"claude-">> \o tasklist_id \o <<"-">> \o task_id

create_header_command(tasklist_id, display_name) ==
    LET name == IF display_name = None THEN tasklist_id ELSE display_name[1]
    IN  [op |-> "CreateTodo",
         content |-> <<"CLAUDE TASKLIST: ">> \o name,
         parent_id |-> None,
         temp_id |-> Some(<<"claude-header-">> \o tasklist_id),
         state |-> "Empty",
         indent_level |-> 0]

format_task_content(task) == task.subject

build_metadata_json(tasklist_id, task_id, blocked_by) ==
    [source |-> "claude-tasks", tasklist_id |-> tasklist_id, task_id |-> task_id,
     read_only |-> TRUE, blocked_by |-> blocked_by]

SetTodoMetadata(todo_id, data) ==
    [op |-> "SetTodoMetadata", todo_id |-> todo_id, data |-> data, merge |-> FALSE]

create_todo_commands(task, tasklist_id, hdr_id) ==
    LET temp_id == <<"claude-">> \o tasklist_id \o <<"-">> \o task.id
    IN  << [op |-> "CreateTodo",
            content |-> format_task_content(task),
            parent_id |-> Some(hdr_id),
            temp_id |-> Some(temp_id),
            state |-> map_status_to_state(task.status),
            indent_level |-> 1],
           SetTodoMetadata(temp_id,
                           build_metadata_json(tasklist_id, task.id, task.blocked_by)) >>

\* update_todo_command without the state: only the content is sent
update_todo_command_content_only(task, existing_todo_id) ==
    [op |-> "UpdateTodo",
     id |-> existing_todo_id,
     content |-> Some(format_task_content(task)),
     state |-> None]

update_todo_command(task, existing_todo_id) ==
    [op |-> "UpdateTodo",
     id |-> existing_todo_id,
     content |-> Some(format_task_content(task)),
     state |-> Some(map_status_to_state(task.status))]

delete_todo_command(todo_id) == [op |-> "DeleteTodo", id |-> todo_id]

update_header_command(tasklist_id, display_name, staleness) ==
    LET name == IF display_name = None THEN tasklist_id ELSE display_name[1]
    IN  [op |-> "UpdateTodo",
         id |-> header_id(tasklist_id),
         content |-> Some(IF staleness = None
                          THEN <<"CLAUDE TASKLIST: ">> \o name
                          ELSE <<"CLAUDE TASKLIST: ">> \o name \o <<" U+23F0 STALE (">>
                               \o staleness[1] \o <<")">>),
         state |-> None]

create_todo_commands_with_hierarchy(task, tasklist_id, hdr_id, hierarchy) ==
    LET temp_id == <<"claude-">> \o tasklist_id \o <<"-">> \o task.id
        content ==
            IF task.id \in DOMAIN hierarchy.annotations
            THEN IF task.id \in hierarchy.cyclic_tasks
                 THEN hierarchy.annotations[task.id] \o <<" ">> \o task.subject
                 ELSE <<"U+1F512", " ">> \o task.subject \o <<" ">>
                      \o hierarchy.annotations[task.id]
            ELSE task.subject
    IN  << [op |-> "CreateTodo",
            content |-> content,
            parent_id |-> Some(hdr_id),
            temp_id |-> Some(temp_id),
            state |-> map_status_to_state(task.status),
            indent_level |-> 1],
           SetTodoMetadata(temp_id,
                           build_metadata_json(tasklist_id, task.id, task.blocked_by)) >>

\* ----------------------------------------------------------- hierarchy.rs
\* HashMap collected from the task list: a later task with the same id wins.
LastIndexOf(tasks, id) ==
    CHOOSE i \in 1..Len(tasks) :
        /\ tasks[i].id = id
        /\ \A j \in (i + 1)..Len(tasks) : tasks[j].id # id

AdjacencyOf(tasks) ==
    [id \in {tasks[i].id : i \in 1..Len(tasks)} |->
        tasks[LastIndexOf(tasks, id)].blocked_by]

RECURSIVE dfs_cycle(_, _, _)
RECURSIVE DfsNeighbors(_, _, _, _)

RECURSIVE DfsNeighbors_marks_visited(_, _, _, _)
\* a loop that takes every edge to a visited node for a cycle
DfsNeighbors_marks_visited(node, neighbors, adj, st) ==
    IF neighbors = <<>> THEN st
    ELSE LET neighbor == Head(neighbors)
             st1 == IF neighbor \notin st.visited
                    THEN dfs_cycle(neighbor, adj, st)
                    ELSE [st EXCEPT !.cyclic = @ \cup {node, neighbor}]
         IN  DfsNeighbors_marks_visited(node, Tail(neighbors), adj, st1)
\* the body of dfs_cycle's `for &neighbor in neighbors`
DfsNeighbors(node, neighbors, adj, st) ==
    IF neighbors = <<>> THEN st
    ELSE LET neighbor == Head(neighbors)
             st1 == IF neighbor \notin st.visited
                    THEN dfs_cycle(neighbor, adj, st)
                    ELSE IF neighbor \in st.in_stack
                         THEN [st EXCEPT !.cyclic = @ \cup {node, neighbor}]
                         ELSE st
         IN  DfsNeighbors(node, Tail(neighbors), adj, st1)

dfs_cycle(node, adj, st) ==
    LET st1 == [st EXCEPT !.visited = @ \cup {node}, !.in_stack = @ \cup {node}]
        st2 == IF node \in DOMAIN adj
               THEN DfsNeighbors(node, adj[node], adj, st1)
               ELSE st1
    IN  [st2 EXCEPT !.in_stack = @ \ {node}]

RECURSIVE DetectFrom(_, _, _)
\* the body of detect_cycles' `for task in tasks`
DetectFrom(rest, adj, st) ==
    IF rest = <<>> THEN st
    ELSE DetectFrom(Tail(rest), adj,
                    IF Head(rest).id \notin st.visited
                    THEN dfs_cycle(Head(rest).id, adj, st)
                    ELSE st)

detect_cycles(tasks) ==
    DetectFrom(tasks, AdjacencyOf(tasks),
               [visited |-> {}, in_stack |-> {}, cyclic |-> {}]).cyclic

RECURSIVE BlockerNames_keeps_unresolved(_, _)
\* BlockerNames with map in place of filter_map: an id of no task is listed
\* as the id itself
BlockerNames_keeps_unresolved(blocked_by, tasks) ==
    IF blocked_by = <<>> THEN <<>>
    ELSE LET id == Head(blocked_by)
             rest == BlockerNames_keeps_unresolved(Tail(blocked_by), tasks)
         IN  IF \E i \in 1..Len(tasks) : tasks[i].id = id
             THEN <<tasks[LastIndexOf(tasks, id)].subject>> \o rest
             ELSE <<id>> \o rest

RECURSIVE BlockerNames(_, _)
\* blocked_by.iter().filter_map(|id| task_map.get(id).map(|t| t.subject))
BlockerNames(blocked_by, tasks) ==
    IF blocked_by = <<>> THEN <<>>
    ELSE LET id == Head(blocked_by)
             rest == BlockerNames(Tail(blocked_by), tasks)
         IN  IF \E i \in 1..Len(tasks) : tasks[i].id = id
             THEN <<tasks[LastIndexOf(tasks, id)].subject>> \o rest
             ELSE rest

\* the annotation build_hierarchy inserts for one task; None when it inserts nothing
AnnotationOf(task, tasks, cyclic) ==
    IF task.id \in cyclic THEN Some(<<"U+26A0 Circular dependency">>)
    ELSE IF task.blocked_by # <<>> /\ BlockerNames(task.blocked_by, tasks) # <<>>
         THEN Some(<<"(blocked by: ">>
                   \o Join(BlockerNames(task.blocked_by, tasks), <<", ">>)
                   \o <<")">>)
         ELSE None

build_hierarchy(tasks) ==
    LET cyclic == detect_cycles(tasks)
        annotated == {i \in 1..Len(tasks) : AnnotationOf(tasks[i], tasks, cyclic) # None}
        LastAnnotated(id) ==
            CHOOSE i \in annotated :
                /\ tasks[i].id = id
                /\ \A j \in annotated : tasks[j].id = id => j <= i
    IN  [annotations |->
            [id \in {tasks[i].id : i \in annotated} |->
                AnnotationOf(tasks[LastAnnotated(id)], tasks, cyclic)[1]],
         cyclic_tasks |-> cyclic]

\* ----------------------------------------------------------- discovery.rs
\* A directory is a function from file names to file contents.
Absent == [kind |-> "absent"]
Malformed == [kind |-> "malformed"]
TaskFile(task) == [kind |-> "task", task |-> task]

\* Path::extension / Path::file_stem on a file name made of tokens
LastDot(name) ==
    IF \E i \in 2..Len(name) : name[i] = "."
    THEN CHOOSE i \in 2..Len(name) :
            name[i] = "." /\ \A j \in (i + 1)..Len(name) : name[j] # "."
    ELSE 0

Extension(name) ==
    IF LastDot(name) = 0 THEN None ELSE Some(SubSeq(name, LastDot(name) + 1, Len(name)))

FileStem(name) ==
    IF Len(name) = 0 THEN None
    ELSE IF LastDot(name) = 0 THEN Some(name)
    ELSE Some(SubSeq(name, 1, LastDot(name) - 1))

\* std::fs::read_to_string + serde_json::from_str::<ClaudeTask>
ReadTask(dir, name) ==
    IF name \in DOMAIN dir /\ dir[name].kind = "task" THEN Some(dir[name].task) ELSE None

Present(dir) == {name \in DOMAIN dir : dir[name].kind # "absent"}

\* the orders in which std::fs::read_dir may list the entries
ReadDirOrders(dir) ==
    {o \in [1..Cardinality(Present(dir)) -> Present(dir)] :
        \A i, j \in DOMAIN o : i # j => o[i] # o[j]}

\* Vec::sort_by is stable: an element goes after every element whose key is <= its own
InsertByNumericId(sorted, task) ==
    LET key(t) == ParseU32(t.id)
        before == {i \in 1..Len(sorted) : key(sorted[i]) <= key(task)}
        n == IF before = {} THEN 0 ELSE CHOOSE i \in before : \A j \in before : j <= i
    IN  SubSeq(sorted, 1, n) \o <<task>> \o SubSeq(sorted, n + 1, Len(sorted))

\* scan_tasks_directory without its sort: the tasks stay in read_dir order
SortByNumericId_unsorted(tasks) == tasks

RECURSIVE SortByNumericId(_)
SortByNumericId(tasks) ==
    IF tasks = <<>> THEN <<>>
    ELSE InsertByNumericId(SortByNumericId(SubSeq(tasks, 1, Len(tasks) - 1)),
                           tasks[Len(tasks)])

\* scan_tasks_directory that gives up at the first file it cannot read or parse
RECURSIVE ParseEntries_stops_at_failure(_, _)
ParseEntries_stops_at_failure(dir, order) ==
    IF order = <<>> THEN <<>>
    ELSE LET name == Head(order)
         IN  IF Extension(name) # Some(<<"json">>)
             THEN ParseEntries_stops_at_failure(dir, Tail(order))
             ELSE IF ReadTask(dir, name) = None THEN <<>>
             ELSE <<ReadTask(dir, name)[1]>>
                      \o ParseEntries_stops_at_failure(dir, Tail(order))
RECURSIVE ParseEntries(_, _)
ParseEntries(dir, order) ==
    IF order = <<>> THEN <<>>
    ELSE LET name == Head(order)
             rest == ParseEntries(dir, Tail(order))
         IN  IF Extension(name) # Some(<<"json">>) THEN rest
             ELSE IF ReadTask(dir, name) = None THEN rest
             ELSE <<ReadTask(dir, name)[1]>> \o rest

scan_tasks_directory(dir, order) == SortByNumericId(ParseEntries(dir, order))

\* ------------------------------------------------------------ guidance.rs
GUIDANCE_HEADER_ID == <<"claude-guidance-header">>
GUIDANCE_NO_TASKLIST_ID == <<"claude-guidance-no-tasklist">>
GUIDANCE_START_CLAUDE_ID == <<"claude-guidance-start-claude">>
GUIDANCE_NO_TASKS_ID == <<"claude-guidance-no-tasks">>
GUIDANCE_TASKS_WILL_APPEAR_ID == <<"claude-guidance-tasks-appear">>
GUIDANCE_WAITING_HEADER_ID == <<"claude-guidance-waiting-header">>
GUIDANCE_ERROR_HEADER_ID == <<"claude-error-header">>
GUIDANCE_ERROR_DETAIL_ID == <<"claude-error-detail">>
GUIDANCE_ERROR_ACTION_ID == <<"claude-error-action">>

GUIDANCE_IDS ==
    << GUIDANCE_HEADER_ID, GUIDANCE_NO_TASKLIST_ID, GUIDANCE_START_CLAUDE_ID,
       GUIDANCE_NO_TASKS_ID, GUIDANCE_TASKS_WILL_APPEAR_ID, GUIDANCE_WAITING_HEADER_ID,
       GUIDANCE_ERROR_HEADER_ID, GUIDANCE_ERROR_DETAIL_ID, GUIDANCE_ERROR_ACTION_ID >>

GuidanceTodo(content, parent_id, temp_id, state, indent_level) ==
    [op |-> "CreateTodo", content |-> content, parent_id |-> parent_id,
     temp_id |-> Some(temp_id), state |-> state, indent_level |-> indent_level]

GuidanceMetadata == [source |-> "claude-tasks", type |-> "guidance"]

create_no_tasklist_guidance ==
    << GuidanceTodo(<<"CLAUDE TASKS - Setup Required">>, None,
                    GUIDANCE_HEADER_ID, "Question", 0),
       GuidanceTodo(<<"No Claude tasklists found in ~/.claude/tasks/">>,
                    Some(GUIDANCE_HEADER_ID), GUIDANCE_NO_TASKLIST_ID, "Empty", 1),
       GuidanceTodo(<<"Start a Claude Code session to create a tasklist">>,
                    Some(GUIDANCE_HEADER_ID), GUIDANCE_START_CLAUDE_ID, "Empty", 1),
       SetTodoMetadata(GUIDANCE_HEADER_ID, GuidanceMetadata) >>

create_empty_tasklist_guidance(display_name) ==
    << GuidanceTodo(<<"CLAUDE TASKLIST: ">> \o display_name \o <<" - Waiting for tasks">>,
                    None, GUIDANCE_WAITING_HEADER_ID, "Empty", 0),
       GuidanceTodo(<<"Claude hasn't created any tasks yet">>,
                    Some(GUIDANCE_WAITING_HEADER_ID), GUIDANCE_NO_TASKS_ID, "Empty", 1),
       GuidanceTodo(<<"Tasks will appear here as Claude works">>,
                    Some(GUIDANCE_WAITING_HEADER_ID), GUIDANCE_TASKS_WILL_APPEAR_ID,
                    "Empty", 1),
       SetTodoMetadata(GUIDANCE_WAITING_HEADER_ID, GuidanceMetadata) >>

GuidanceErrorMetadata == [source |-> "claude-tasks", type |-> "guidance", error |-> TRUE]

create_error_guidance(title, explanation, action) ==
    << GuidanceTodo(title, None, GUIDANCE_ERROR_HEADER_ID, "Exclamation", 0),
       GuidanceTodo(explanation, Some(GUIDANCE_ERROR_HEADER_ID),
                    GUIDANCE_ERROR_DETAIL_ID, "Empty", 1),
       GuidanceTodo(<<"Action: ">> \o action, Some(GUIDANCE_ERROR_HEADER_ID),
                    GUIDANCE_ERROR_ACTION_ID, "Empty", 1),
       SetTodoMetadata(GUIDANCE_ERROR_HEADER_ID, GuidanceErrorMetadata) >>

\* clear_guidance that deletes the headers only
clear_guidance_headers_only ==
    << delete_todo_command(GUIDANCE_HEADER_ID),
       delete_todo_command(GUIDANCE_WAITING_HEADER_ID),
       delete_todo_command(GUIDANCE_ERROR_HEADER_ID) >>
clear_guidance == [i \in 1..Len(GUIDANCE_IDS) |-> delete_todo_command(GUIDANCE_IDS[i])]

\* ---------------------------------------------------------------- sync.rs
extract_task_id_from_path(file_name) == FileStem(file_name)

RECURSIVE ScanCommands(_, _, _, _)
\* the body of process_initial_scan_local's `for task in &claude_tasks`
ScanCommands(rest, tasklist_id, hdr_id, hierarchy) ==
    IF rest = <<>> THEN <<>>
    ELSE create_todo_commands_with_hierarchy(Head(rest), tasklist_id, hdr_id, hierarchy)
         \o ScanCommands(Tail(rest), tasklist_id, hdr_id, hierarchy)

\* claude_tasks is what scan_tasks_directory(tasklist_path) returned
process_initial_scan_local(claude_tasks, tasklist_id, alias) ==
    [commands |-> <<create_header_command(tasklist_id, alias)>>
                  \o ScanCommands(claude_tasks, tasklist_id, header_id(tasklist_id),
                                  build_hierarchy(claude_tasks)),
     task_ids |-> [i \in 1..Len(claude_tasks) |-> claude_tasks[i].id]]

\* read is what reading and parsing file_path gave: None, or Some(task)
process_file_change_local(file_name, read, tasklist_id, is_known) ==
    IF extract_task_id_from_path(file_name) = None \/ read = None THEN None
    ELSE LET task_id == extract_task_id_from_path(file_name)[1]
             task == read[1]
         IN  Some([commands |->
                      IF is_known
                      THEN <<update_todo_command(task, task_todo_id(tasklist_id, task_id))>>
                      ELSE create_todo_commands(task, tasklist_id, header_id(tasklist_id)),
                   task_id |-> task_id])

process_file_removal_local(file_name, tasklist_id) ==
    IF extract_task_id_from_path(file_name) = None THEN None
    ELSE LET task_id == extract_task_id_from_path(file_name)[1]
         IN  Some([command |-> delete_todo_command(task_todo_id(tasklist_id, task_id)),
                   task_id |-> task_id])

\* needs_update(task, existing): existing is the todo the host holds
needs_update(task, existing) ==
    IF existing.state # map_status_to_state(task.status) THEN TRUE
    ELSE IF existing.content # task.subject THEN TRUE
    ELSE FALSE

\* ------------------------------------------------------------------ paths
TasksDir == <<"~/.claude/tasks">>
TasklistPath(tasklist_id) == TasksDir \o <<"/">> \o tasklist_id
FilePath(dir_path, file_name) == dir_path \o <<"/">> \o file_name

LastSlash(path) ==
    IF \E i \in 1..Len(path) : path[i] = "/"
    THEN CHOOSE i \in 1..Len(path) :
            path[i] = "/" /\ \A j \in (i + 1)..Len(path) : path[j] # "/"
    ELSE 0

\* Path::file_name and Path::parent
FileNameOf(path) == SubSeq(path, LastSlash(path) + 1, Len(path))
ParentOf(path) == SubSeq(path, 1, LastSlash(path) - 1)

\* ------------------------------------------------------ the source files
\* What the external writer (the coding agent) may put on disk: a record
\* file is named <task id>.json (spec section 6).
Sources == {<<"s1">>, <<"s2">>}
\* the tasklist of the agent session that is running
Written == {<<"s1">>}
TaskId(n) == <<Digits[n]>>
TaskFileName(n) == <<Digits[n], ".", "json">>
BlockerOf(n) == TaskId((n % MaxTask) + 1)

WriterMenu(n) ==
    { TaskFile(ClaudeTask(TaskId(n), <<"T", Digits[n]>>, "pending", <<>>)),
      TaskFile(ClaudeTask(TaskId(n), <<"T", Digits[n]>>, "pending", <<BlockerOf(n)>>)),
      TaskFile(ClaudeTask(TaskId(n), <<"U", Digits[n]>>, "completed", <<>>)),
      Malformed }

FilePaths == {FilePath(TasklistPath(s), TaskFileName(n)) : s \in Sources, n \in 1..MaxTask}

\* the directory at dir_path, as a function from file names to contents
DirAt(fs, dir_path) ==
    [name \in {FileNameOf(p) : p \in {q \in DOMAIN fs : ParentOf(q) = dir_path}} |->
        fs[FilePath(dir_path, name)]]

\* a lenient parse: a malformed file reads as a record of default fields
ReadTaskAt_lenient(fs, file_path) ==
    IF file_path \notin DOMAIN fs \/ fs[file_path].kind = "absent" THEN None
    ELSE IF fs[file_path].kind = "task" THEN Some(fs[file_path].task)
    ELSE Some(ClaudeTask(<<>>, <<>>, "pending", <<>>))

\* std::fs::read_to_string(file_path) + serde_json::from_str
ReadTaskAt(fs, file_path) ==
    IF file_path \in DOMAIN fs /\ fs[file_path].kind = "task"
    THEN Some(fs[file_path].task)
    ELSE None

\* ------------------------------------------------------------- state.rs
InitialScan == [type |-> "InitialScan", path |-> <<>>]
FileChanged(path) == [type |-> "FileChanged", path |-> path]
FileRemoved(path) == [type |-> "FileRemoved", path |-> path]

VARIABLES
    disk,               \* the task files: file path -> content
    writes,             \* how many writes the external writer has made
    fsq,                \* filesystem notifications the debouncer has not delivered yet
    rx,                 \* ClaudeTasksPlugin.rx: None, or Some(queued SyncEvents)
    watcher_handle,     \* ClaudeTasksPlugin.watcher_handle: None, or Some(watched path)
    selected_tasklist,  \* SyncState.selected_tasklist
    known_tasks,        \* SyncState.known_tasks
    guidance_state,     \* SyncState.guidance_state
    guidance_shown,     \* SyncState.guidance_shown
    pending_commands,   \* SyncState.pending_commands
    is_tracking,        \* SyncState.staleness_tracker.last_update.is_some()
    pc,                 \* where the consumer is
    entry,              \* the callback that is running process_sync_events_local
    events,             \* process_sync_events_local: the drained events still to process
    commands,           \* process_sync_events_local: the commands collected so far
    watcher,            \* the watcher thread: not spawned, starting, watching or exited
    mirror,             \* the downstream todo list: todo id -> [content, state]
    obs,                \* what the consumer's latest step did
    unseen,             \* history: the paths whose latest change raised no notification
                        \* and has not been covered by a full scan since
    dropped,            \* history: the paths whose latest FileChanged event was dropped
    call,               \* a function or a component run alone: its input and its result
    poll                \* history: what the running poll drained and processed, and the guidance
                        \* mode and the downstream list it started from

envVars == <<disk, writes>>
stateVars == <<selected_tasklist, known_tasks, guidance_state, guidance_shown,
               pending_commands, is_tracking>>
vars == <<disk, writes, fsq, rx, watcher_handle, selected_tasklist, known_tasks,
          guidance_state, guidance_shown, pending_commands, is_tracking,
          pc, entry, events, commands, watcher, mirror, obs, unseen, dropped, call, poll>>
consumerVars == <<pc, entry, events, commands>>
pluginVars == <<disk, writes, fsq, rx, watcher_handle, selected_tasklist, known_tasks,
                guidance_state, guidance_shown, pending_commands, is_tracking,
                pc, entry, events, commands, watcher, mirror, obs, unseen, dropped,
                poll>>
historyVars == <<unseen, dropped>>

\* ------------------------------------------------ the downstream todo list
\* The host applies the returned commands in order.
ApplyCommand(m, cmd) ==
    CASE cmd.op = "CreateTodo" ->
            (cmd.temp_id[1] :> [content |-> cmd.content, state |-> cmd.state]) @@ m
      [] cmd.op = "UpdateTodo" ->
            IF cmd.id \in DOMAIN m
            THEN [m EXCEPT ![cmd.id] =
                    [content |-> IF cmd.content = None THEN @.content ELSE cmd.content[1],
                     state |-> IF cmd.state = None THEN @.state ELSE cmd.state[1]]]
            ELSE m
      [] cmd.op = "DeleteTodo" -> [id \in DOMAIN m \ {cmd.id} |-> m[id]]
      [] OTHER -> m

RECURSIVE ApplyCommands(_, _)
ApplyCommands(m, cmds) ==
    IF cmds = <<>> THEN m ELSE ApplyCommands(ApplyCommand(m, Head(cmds)), Tail(cmds))

NoObs == [act |-> "none"]
NoCall == [fn |-> "none"]
NoPoll == [running |-> FALSE]

NoWatcher == [st |-> "none"]

\* What the task store holds when the plugin is constructed: nothing, or the
\* first task of the first tasklist.
InitialDisks ==
    { [p \in FilePaths |-> Absent],
      [p \in FilePaths |->
          IF p = FilePath(TasklistPath(<<"s1">>), TaskFileName(1))
          THEN TaskFile(ClaudeTask(TaskId(1), <<"T", Digits[1]>>, "pending", <<>>))
          ELSE Absent] }

Init ==
    /\ disk \in InitialDisks
    /\ writes = 0
    /\ fsq = <<>>
    /\ rx = None
    /\ watcher_handle = None
    /\ selected_tasklist = None
    /\ known_tasks = {}
    /\ guidance_state = "None"
    /\ guidance_shown = FALSE
    /\ pending_commands = <<>>
    /\ is_tracking = FALSE
    /\ pc = "idle"
    /\ entry = "none"
    /\ events = <<>>
    /\ commands = <<>>
    /\ watcher = NoWatcher
    /\ mirror = <<>>
    /\ obs = NoObs
    /\ unseen = {}
    /\ dropped = {}
    /\ poll = NoPoll
    /\ call = NoCall

\* ------------------------------------------------- the external writer
\* The notification the OS raises for a change of file p, queued only while a
\* watcher thread is watching p's directory.
Watched(p) == watcher.st = "watching" /\ watcher.path = ParentOf(p)

Notify(kind, p) ==
    IF Watched(p) THEN Append(fsq, [kind |-> kind, paths |-> <<p>>]) ELSE fsq

WriteFile(n, s) ==
    LET p == FilePath(TasklistPath(s), TaskFileName(n))
    IN  /\ UNCHANGED <<call, poll>>
        /\ writes < MaxWrites
        /\ \E c \in WriterMenu(n) :
            /\ disk' = [disk EXCEPT ![p] = c]
            /\ fsq' = Notify(IF disk[p].kind = "absent" THEN "Create" ELSE "Modify", p)
        /\ writes' = writes + 1
        /\ obs' = NoObs
        /\ unseen' = IF Watched(p) THEN unseen \ {p} ELSE unseen \cup {p}
        /\ UNCHANGED dropped
        /\ UNCHANGED <<rx, watcher_handle, watcher, mirror>>
        /\ UNCHANGED stateVars
        /\ UNCHANGED consumerVars

RemoveFile(n, s) ==
    LET p == FilePath(TasklistPath(s), TaskFileName(n))
    IN  /\ UNCHANGED <<call, poll>>
        /\ writes < MaxWrites
        /\ disk[p].kind # "absent"
        /\ disk' = [disk EXCEPT ![p] = Absent]
        /\ fsq' = Notify("Remove", p)
        /\ writes' = writes + 1
        /\ obs' = NoObs
        /\ unseen' = IF Watched(p) THEN unseen \ {p} ELSE unseen \cup {p}
        /\ UNCHANGED dropped
        /\ UNCHANGED <<rx, watcher_handle, watcher, mirror>>
        /\ UNCHANGED stateVars
        /\ UNCHANGED consumerVars

\* ------------------------------------------------------------ watcher.rs
\* translate_event that looks at the kind only
translate_event_any_extension(event) ==
    IF Len(event.paths) = 0 THEN None
    ELSE LET path == event.paths[1]
         IN  CASE event.kind \in {"Create", "Modify"} -> Some(FileChanged(path))
               [] event.kind = "Remove" -> Some(FileRemoved(path))
               [] OTHER -> None
translate_event(event) ==
    IF Len(event.paths) = 0 THEN None
    ELSE LET path == event.paths[1]
         IN  IF Extension(FileNameOf(path)) # Some(<<"json">>) THEN None
             ELSE CASE event.kind \in {"Create", "Modify"} -> Some(FileChanged(path))
                    [] event.kind = "Remove" -> Some(FileRemoved(path))
                    [] OTHER -> None

\* the thread body of start_watcher up to its park loop: new_debouncer and
\* debouncer.watch either both succeed, or the thread returns
WatcherSetup ==
    /\ UNCHANGED <<call, poll>>
    /\ UNCHANGED historyVars
    /\ watcher.st = "starting"
    /\ \E ok \in BOOLEAN :
        watcher' = [watcher EXCEPT !.st = IF ok THEN "watching" ELSE "exited"]
    /\ obs' = NoObs
    /\ UNCHANGED <<disk, writes, fsq, rx, watcher_handle, mirror>>
    /\ UNCHANGED stateVars
    /\ UNCHANGED consumerVars

\* the debouncer callback, for one debounced event: translate it and send it
\* on the channel the watcher was started with
WatcherDeliver ==
    /\ UNCHANGED <<call, poll>>
    /\ UNCHANGED historyVars
    /\ watcher.st = "watching"
    /\ fsq # <<>>
    /\ fsq' = Tail(fsq)
    /\ rx' = IF translate_event(Head(fsq)) = None THEN rx
             ELSE Some(Append(rx[1], translate_event(Head(fsq))[1]))
    /\ obs' = NoObs
    /\ UNCHANGED <<disk, writes, watcher_handle, watcher, mirror>>
    /\ UNCHANGED stateVars
    /\ UNCHANGED consumerVars

\* ---------------------------------------------------------------- lib.rs
\* the config map's "tasklist" entry: None when missing or not a string
ConfigValues == {None, Some(<<>>), Some(<<"s9">>)} \cup {Some(s) : s \in Sources}

\* discover_tasklists(): the ids of the directories holding at least one
\* well-formed task file
discover_tasklists(fs) ==
    {s \in Sources :
        \E order \in ReadDirOrders(DirAt(fs, TasklistPath(s))) :
            scan_tasks_directory(DirAt(fs, TasklistPath(s)), order) # <<>>}

format_tasklist_display(uuid, alias) ==
    IF alias = None THEN uuid ELSE alias[1] \o <<" (">> \o uuid \o <<"...)">>

\* a current id that is never read from the state
CurrentId_unread == None
CurrentId == IF selected_tasklist = None THEN None
             ELSE Some(FileNameOf(selected_tasklist[1]))

\* on_config_loaded, from its start to the return of start_watcher (or to an
\* early return). start_watcher spawns the new thread; the thread of the
\* handle still stored in watcher_handle, if any, goes on running (watcher.old)
\* until the new handle is stored. Its channel has lost its receiver, so what
\* it sends from now on is dropped.
\* start_watcher returns Ok(handle) on every path: the thread it spawns is the
\* one that creates the debouncer and registers the watch, and it returns
\* without a word when either fails. The Err arm of the match is never taken.
ConfigLoaded(config) ==
    /\ UNCHANGED <<call, poll>>
    /\ UNCHANGED historyVars
    /\ pc = "idle"
    /\ obs' = NoObs
    /\ UNCHANGED <<disk, writes, known_tasks, entry, events, commands, mirror>>
    /\ IF watcher_handle # None /\ (config = CurrentId \/ config = None)
       THEN \* already watching this tasklist
            UNCHANGED <<fsq, rx, watcher_handle, watcher, selected_tasklist,
                        guidance_state, guidance_shown, pending_commands,
                        is_tracking, pc>>
       ELSE IF discover_tasklists(disk) = {}
       THEN /\ pending_commands' = create_no_tasklist_guidance
            /\ guidance_state' = "NoTasklists"
            /\ guidance_shown' = TRUE
            /\ UNCHANGED <<fsq, rx, watcher_handle, watcher, selected_tasklist,
                           is_tracking, pc>>
       ELSE IF config = None \/ config = Some(<<>>)
               \/ config[1] \notin discover_tasklists(disk)
       THEN UNCHANGED <<fsq, rx, watcher_handle, watcher, selected_tasklist,
                        guidance_state, guidance_shown, pending_commands,
                        is_tracking, pc>>
       ELSE /\ selected_tasklist' = Some(TasklistPath(config[1]))
            /\ is_tracking' = FALSE
            /\ rx' = Some(<<>>)
            /\ watcher' = [st |-> "starting", path |-> TasklistPath(config[1]),
                           old |-> IF watcher_handle = None THEN NoWatcher
                                   ELSE [st |-> watcher.st, path |-> watcher.path]]
            /\ fsq' = <<>>
            /\ pc' = "config_store"
            /\ UNCHANGED <<watcher_handle, guidance_state, guidance_shown,
                           pending_commands>>

\* on_config_loaded: *self.watcher_handle.lock().unwrap() = Some(handle). The
\* handle that was stored is dropped by the assignment: WatcherHandle::drop
\* calls shutdown, which stops the old thread and joins it.
ConfigStore ==
    /\ UNCHANGED <<call, poll>>
    /\ UNCHANGED historyVars
    /\ pc = "config_store"
    /\ watcher_handle' = Some(watcher.path)
    /\ watcher' = [watcher EXCEPT !.old = NoWatcher]
    /\ pc' = "config_scan"
    /\ obs' = NoObs
    /\ UNCHANGED <<disk, writes, fsq, rx, entry, events, commands, mirror>>
    /\ UNCHANGED stateVars

\* on_config_loaded: the empty-tasklist check after the watcher has started
ConfigScan ==
    /\ UNCHANGED <<call, poll>>
    /\ UNCHANGED historyVars
    /\ pc = "config_scan"
    /\ \E order \in ReadDirOrders(DirAt(disk, selected_tasklist[1])) :
        IF scan_tasks_directory(DirAt(disk, selected_tasklist[1]), order) = <<>>
        THEN /\ pending_commands' =
                    create_empty_tasklist_guidance(
                        format_tasklist_display(FileNameOf(selected_tasklist[1]), None))
             /\ guidance_state' = "EmptyTasklist"
             /\ guidance_shown' = TRUE
        ELSE UNCHANGED <<guidance_state, guidance_shown, pending_commands>>
    /\ pc' = "config_send"
    /\ obs' = NoObs
    /\ UNCHANGED <<disk, writes, fsq, rx, watcher_handle, watcher, selected_tasklist,
                   known_tasks, is_tracking, entry, events, commands, mirror>>

\* on_config_loaded that announces the files it found as changes
ConfigSend_sends_changes ==
    /\ UNCHANGED <<call, poll>>
    /\ UNCHANGED historyVars
    /\ pc = "config_send"
    /\ LET found == {p \in DOMAIN disk : ParentOf(p) = selected_tasklist[1]
                                          /\ disk[p].kind # "absent"}
       IN  rx' = Some(Append(rx[1], IF found = {} THEN InitialScan
                                    ELSE FileChanged(CHOOSE p \in found : TRUE)))
    /\ pc' = "idle"
    /\ obs' = NoObs
    /\ UNCHANGED <<disk, writes, fsq, watcher_handle, watcher, entry, events,
                   commands, mirror>>
    /\ UNCHANGED stateVars
\* on_config_loaded: tx_for_initial.send(SyncEvent::InitialScan)
ConfigSend ==
    /\ UNCHANGED <<call, poll>>
    /\ UNCHANGED historyVars
    /\ pc = "config_send"
    /\ rx' = Some(Append(rx[1], InitialScan))
    /\ pc' = "idle"
    /\ obs' = NoObs
    /\ UNCHANGED <<disk, writes, fsq, watcher_handle, watcher, entry, events,
                   commands, mirror>>
    /\ UNCHANGED stateVars

\* on_event that returns the pending commands and leaves them queued
OnEventPending_keeps_pending ==
    /\ UNCHANGED <<call, poll>>
    /\ UNCHANGED historyVars
    /\ pc = "idle"
    /\ pending_commands # <<>>
    /\ pending_commands' = pending_commands
    /\ mirror' = ApplyCommands(mirror, pending_commands)
    /\ obs' = [act |-> "return", entry |-> "on_event", pending |-> TRUE,
               returned |-> pending_commands, poll |-> NoPoll]
    /\ UNCHANGED <<disk, writes, fsq, rx, watcher_handle, watcher, selected_tasklist,
                   known_tasks, guidance_state, guidance_shown, is_tracking>>
    /\ UNCHANGED consumerVars

\* on_event: pending guidance commands are returned and nothing else is done
\* on_event that empties the channel when it returns the pending commands
OnEventPending_drains ==
    /\ UNCHANGED <<call, poll>>
    /\ UNCHANGED historyVars
    /\ pc = "idle"
    /\ pending_commands # <<>>
    /\ pending_commands' = <<>>
    /\ rx' = IF rx = None THEN None ELSE Some(<<>>)
    /\ mirror' = ApplyCommands(mirror, pending_commands)
    /\ obs' = [act |-> "return", entry |-> "on_event", pending |-> TRUE,
               returned |-> pending_commands, poll |-> NoPoll]
    /\ UNCHANGED <<disk, writes, fsq, watcher_handle, watcher, selected_tasklist,
                   known_tasks, guidance_state, guidance_shown, is_tracking>>
    /\ UNCHANGED consumerVars
OnEventPending ==
    /\ UNCHANGED <<call, poll>>
    /\ UNCHANGED historyVars
    /\ pc = "idle"
    /\ pending_commands # <<>>
    /\ pending_commands' = <<>>
    /\ mirror' = ApplyCommands(mirror, pending_commands)
    /\ obs' = [act |-> "return", entry |-> "on_event", pending |-> TRUE,
               returned |-> pending_commands, poll |-> NoPoll]
    /\ UNCHANGED <<disk, writes, fsq, rx, watcher_handle, watcher, selected_tasklist,
                   known_tasks, guidance_state, guidance_shown, is_tracking>>
    /\ UNCHANGED consumerVars

\* process_sync_events_local with no tasklist selected: on_event and
\* execute_with_host both return no command
PollNoTasklist(e) ==
    /\ UNCHANGED <<call, poll>>
    /\ UNCHANGED historyVars
    /\ pc = "idle"
    /\ e = "on_event" => pending_commands = <<>>
    /\ selected_tasklist = None
    /\ obs' = [act |-> "return", entry |-> e, pending |-> FALSE, returned |-> <<>>,
               poll |-> NoPoll]
    /\ UNCHANGED <<disk, writes, fsq, rx, watcher_handle, watcher, mirror>>
    /\ UNCHANGED stateVars
    /\ UNCHANGED consumerVars

\* process_sync_events_local that clears the guidance on any drained event
PollDrain_clears_on_any_event(e) ==
    /\ UNCHANGED call
    /\ UNCHANGED historyVars
    /\ pc = "idle"
    /\ e = "on_event" => pending_commands = <<>>
    /\ selected_tasklist # None
    /\ rx # None
    /\ LET drained == rx[1]
           has_file_changed_events ==
               \E i \in 1..Len(drained) : drained[i].type = "FileChanged"
           should_clear_guidance == guidance_shown /\ drained # <<>>
           cmds == IF should_clear_guidance THEN clear_guidance ELSE <<>>
       IN  /\ rx' = Some(<<>>)
           /\ events' = drained
           /\ is_tracking' = (is_tracking \/ drained # <<>>)
           /\ commands' = cmds
           /\ guidance_state' = IF should_clear_guidance THEN "None" ELSE guidance_state
           /\ guidance_shown' = IF should_clear_guidance THEN FALSE ELSE guidance_shown
           /\ mirror' = ApplyCommands(mirror, cmds)
           /\ obs' = [act |-> "drain", entry |-> e, drained |-> drained, cmds |-> cmds]
           /\ poll' = [running |-> TRUE, drained |-> drained,
                       guidance_before |-> guidance_state, mirror_before |-> mirror,
                       processed |-> <<>>]
    /\ pc' = "process"
    /\ entry' = e
    /\ UNCHANGED <<disk, writes, fsq, watcher_handle, watcher, selected_tasklist,
                   known_tasks, pending_commands>>

\* process_sync_events_local that handles the removals of a batch before its
\* other events
PollDrain_removals_first(e) ==
    /\ UNCHANGED call
    /\ UNCHANGED historyVars
    /\ pc = "idle"
    /\ e = "on_event" => pending_commands = <<>>
    /\ selected_tasklist # None
    /\ rx # None
    /\ LET IsRemoval(event) == event.type = "FileRemoved"
           IsOther(event) == event.type # "FileRemoved"
           drained == SelectSeq(rx[1], IsRemoval) \o SelectSeq(rx[1], IsOther)
           has_file_changed_events ==
               \E i \in 1..Len(drained) : drained[i].type = "FileChanged"
           should_clear_guidance == guidance_shown /\ has_file_changed_events
           cmds == IF should_clear_guidance THEN clear_guidance ELSE <<>>
       IN  /\ rx' = Some(<<>>)
           /\ events' = drained
           /\ is_tracking' = (is_tracking \/ drained # <<>>)
           /\ commands' = cmds
           /\ guidance_state' = IF should_clear_guidance THEN "None" ELSE guidance_state
           /\ guidance_shown' = IF should_clear_guidance THEN FALSE ELSE guidance_shown
           /\ mirror' = ApplyCommands(mirror, cmds)
           /\ obs' = [act |-> "drain", entry |-> e, drained |-> drained, cmds |-> cmds]
           /\ poll' = [running |-> TRUE, drained |-> drained,
                       guidance_before |-> guidance_state, mirror_before |-> mirror,
                       processed |-> <<>>]
    /\ pc' = "process"
    /\ entry' = e
    /\ UNCHANGED <<disk, writes, fsq, watcher_handle, watcher, selected_tasklist,
                   known_tasks, pending_commands>>
\* process_sync_events_local that receives one event per poll
PollDrain_takes_one(e) ==
    /\ UNCHANGED call
    /\ UNCHANGED historyVars
    /\ pc = "idle"
    /\ e = "on_event" => pending_commands = <<>>
    /\ selected_tasklist # None
    /\ rx # None
    /\ LET drained == SubSeq(rx[1], 1, 1)
           has_file_changed_events ==
               \E i \in 1..Len(drained) : drained[i].type = "FileChanged"
           should_clear_guidance == guidance_shown /\ has_file_changed_events
           cmds == IF should_clear_guidance THEN clear_guidance ELSE <<>>
       IN  /\ rx' = Some(SubSeq(rx[1], 2, Len(rx[1])))
           /\ events' = drained
           /\ is_tracking' = (is_tracking \/ drained # <<>>)
           /\ commands' = cmds
           /\ guidance_state' = IF should_clear_guidance THEN "None" ELSE guidance_state
           /\ guidance_shown' = IF should_clear_guidance THEN FALSE ELSE guidance_shown
           /\ mirror' = ApplyCommands(mirror, cmds)
           /\ obs' = [act |-> "drain", entry |-> e, drained |-> drained, cmds |-> cmds]
           /\ poll' = [running |-> TRUE, drained |-> drained,
                       guidance_before |-> guidance_state, mirror_before |-> mirror,
                       processed |-> <<>>]
    /\ pc' = "process"
    /\ entry' = e
    /\ UNCHANGED <<disk, writes, fsq, watcher_handle, watcher, selected_tasklist,
                   known_tasks, pending_commands>>

\* process_sync_events_local up to its event loop: drain the channel, record
\* the update, clear the guidance
\* process_sync_events_local that clears the guidance whenever it is shown
PollDrain_clears_when_shown(e) ==
    /\ UNCHANGED call
    /\ UNCHANGED historyVars
    /\ pc = "idle"
    /\ e = "on_event" => pending_commands = <<>>
    /\ selected_tasklist # None
    /\ rx # None
    /\ LET drained == rx[1]
           should_clear_guidance == guidance_shown
           cmds == IF should_clear_guidance THEN clear_guidance ELSE <<>>
       IN  /\ rx' = Some(<<>>)
           /\ events' = drained
           /\ is_tracking' = (is_tracking \/ drained # <<>>)
           /\ commands' = cmds
           /\ guidance_state' = IF should_clear_guidance THEN "None" ELSE guidance_state
           /\ guidance_shown' = IF should_clear_guidance THEN FALSE ELSE guidance_shown
           /\ mirror' = ApplyCommands(mirror, cmds)
           /\ obs' = [act |-> "drain", entry |-> e, drained |-> drained, cmds |-> cmds]
           /\ poll' = [running |-> TRUE, drained |-> drained,
                       guidance_before |-> guidance_state, mirror_before |-> mirror,
                       processed |-> <<>>]
    /\ pc' = "process"
    /\ entry' = e
    /\ UNCHANGED <<disk, writes, fsq, watcher_handle, watcher, selected_tasklist,
                   known_tasks, pending_commands>>
\* process_sync_events_local whose guidance clear resets the mode and leaves
\* the flag
PollDrain_keeps_shown(e) ==
    /\ UNCHANGED call
    /\ UNCHANGED historyVars
    /\ pc = "idle"
    /\ e = "on_event" => pending_commands = <<>>
    /\ selected_tasklist # None
    /\ rx # None
    /\ LET drained == rx[1]
           has_file_changed_events ==
               \E i \in 1..Len(drained) : drained[i].type = "FileChanged"
           should_clear_guidance == guidance_shown /\ has_file_changed_events
           cmds == IF should_clear_guidance THEN clear_guidance ELSE <<>>
       IN  /\ rx' = Some(<<>>)
           /\ events' = drained
           /\ is_tracking' = (is_tracking \/ drained # <<>>)
           /\ commands' = cmds
           /\ guidance_state' = IF should_clear_guidance THEN "None" ELSE guidance_state
           /\ guidance_shown' = guidance_shown
           /\ mirror' = ApplyCommands(mirror, cmds)
           /\ obs' = [act |-> "drain", entry |-> e, drained |-> drained, cmds |-> cmds]
           /\ poll' = [running |-> TRUE, drained |-> drained,
                       guidance_before |-> guidance_state, mirror_before |-> mirror,
                       processed |-> <<>>]
    /\ pc' = "process"
    /\ entry' = e
    /\ UNCHANGED <<disk, writes, fsq, watcher_handle, watcher, selected_tasklist,
                   known_tasks, pending_commands>>
PollDrain(e) ==
    /\ UNCHANGED call
    /\ UNCHANGED historyVars
    /\ pc = "idle"
    /\ e = "on_event" => pending_commands = <<>>
    /\ selected_tasklist # None
    /\ rx # None
    /\ LET drained == rx[1]
           has_file_changed_events ==
               \E i \in 1..Len(drained) : drained[i].type = "FileChanged"
           should_clear_guidance == guidance_shown /\ has_file_changed_events
           cmds == IF should_clear_guidance THEN clear_guidance ELSE <<>>
       IN  /\ rx' = Some(<<>>)
           /\ events' = drained
           /\ is_tracking' = (is_tracking \/ drained # <<>>)
           /\ commands' = cmds
           /\ guidance_state' = IF should_clear_guidance THEN "None" ELSE guidance_state
           /\ guidance_shown' = IF should_clear_guidance THEN FALSE ELSE guidance_shown
           /\ mirror' = ApplyCommands(mirror, cmds)
           /\ obs' = [act |-> "drain", entry |-> e, drained |-> drained, cmds |-> cmds]
           /\ poll' = [running |-> TRUE, drained |-> drained,
                       guidance_before |-> guidance_state, mirror_before |-> mirror,
                       processed |-> <<>>]
    /\ pc' = "process"
    /\ entry' = e
    /\ UNCHANGED <<disk, writes, fsq, watcher_handle, watcher, selected_tasklist,
                   known_tasks, pending_commands>>

TasklistId == FileNameOf(selected_tasklist[1])

\* SyncState::clear_known_tasks followed by mark_task_known for every id
MarkAllKnown(task_ids) == RangeOf(task_ids)

\* SyncState::mark_task_known / forget_task
mark_task_known(known, task_id) == known \cup {task_id}
\* forget_task that forgets nothing
forget_task_keeps(known, task_id) == known
forget_task(known, task_id) == known \ {task_id}

\* the InitialScan arm of the event loop, but for the push onto `commands`
InitialScanArm ==
    \E order \in ReadDirOrders(DirAt(disk, selected_tasklist[1])) :
        LET claude_tasks == scan_tasks_directory(DirAt(disk, selected_tasklist[1]), order)
            r == process_initial_scan_local(claude_tasks, TasklistId, None)
        IN  /\ known_tasks' = MarkAllKnown(r.task_ids)
            /\ mirror' = ApplyCommands(mirror, r.commands)
            /\ obs' = [act |-> "initial_scan", cmds |-> r.commands,
                       claude_tasks |-> claude_tasks,
                       known_before |-> known_tasks, mirror_before |-> mirror,
                       after_scan |-> obs.act = "initial_scan"]
            /\ unseen' = {p \in unseen : ParentOf(p) # selected_tasklist[1]}
            /\ UNCHANGED dropped

ProcessInitialScan ==
    /\ InitialScanArm
    /\ commands' = commands \o obs'.cmds

\* the FileChanged arm of the event loop
ProcessFileChanged(path) ==
    LET stem == FileStem(FileNameOf(path))
        is_known == stem # None /\ stem[1] \in known_tasks
        read == ReadTaskAt(disk, path)
        r == process_file_change_local(FileNameOf(path), read, TasklistId, is_known)
        cmds == IF r = None THEN <<>> ELSE r[1].commands
    IN  /\ commands' = commands \o cmds
        /\ known_tasks' = IF r # None /\ ~is_known
                          THEN mark_task_known(known_tasks, r[1].task_id)
                          ELSE known_tasks
        /\ mirror' = ApplyCommands(mirror, cmds)
        /\ obs' = [act |-> "file_changed", path |-> path, cmds |-> cmds,
                   is_known |-> is_known, read |-> read,
                   known_before |-> known_tasks, mirror_before |-> mirror,
                   retry |-> path \in dropped]
        /\ dropped' = IF r = None THEN dropped \cup {path} ELSE dropped \ {path}
        /\ UNCHANGED unseen

\* the FileRemoved arm of the event loop
ProcessFileRemoved(path) ==
    LET r == process_file_removal_local(FileNameOf(path), TasklistId)
        cmds == IF r = None THEN <<>> ELSE <<r[1].command>>
    IN  /\ commands' = commands \o cmds
        /\ known_tasks' = IF r # None THEN forget_task(known_tasks, r[1].task_id)
                          ELSE known_tasks
        /\ mirror' = ApplyCommands(mirror, cmds)
        /\ obs' = [act |-> "file_removed", path |-> path, cmds |-> cmds,
                   known_before |-> known_tasks, mirror_before |-> mirror]
        /\ UNCHANGED historyVars

\* one iteration of `for event in events`
ProcessEvent ==
    /\ UNCHANGED call
    /\ pc = "process"
    /\ events # <<>>
    /\ events' = Tail(events)
    /\ poll' = [poll EXCEPT !.processed = Append(@, Head(events))]
    /\ CASE Head(events).type = "InitialScan" -> ProcessInitialScan
         [] Head(events).type = "FileChanged" -> ProcessFileChanged(Head(events).path)
         [] Head(events).type = "FileRemoved" -> ProcessFileRemoved(Head(events).path)
    /\ UNCHANGED <<disk, writes, fsq, rx, watcher_handle, watcher, selected_tasklist,
                   guidance_state, guidance_shown, pending_commands, is_tracking,
                   pc, entry>>

\* the end of the event loop: execute_with_host returns the commands; on_event
\* first appends the header update when the tracker is tracking and either
\* reports stale (the elapsed time is the environment's) or commands exist
PollReturn ==
    /\ UNCHANGED call
    /\ UNCHANGED historyVars
    /\ pc = "process"
    /\ events = <<>>
    /\ \E stale \in BOOLEAN :
        LET staleness == IF is_tracking /\ stale THEN Some(<<"<duration>">>) ELSE None
            header == IF entry = "on_event" /\ is_tracking
                         /\ (staleness # None \/ commands # <<>>)
                      THEN <<update_header_command(TasklistId, None, staleness)>>
                      ELSE <<>>
        IN  /\ mirror' = ApplyCommands(mirror, header)
            /\ obs' = [act |-> "return", entry |-> entry, pending |-> FALSE,
                       returned |-> commands \o header, poll |-> poll,
                       produced |-> commands, staleness |-> staleness]
    /\ poll' = NoPoll
    /\ pc' = "idle"
    /\ entry' = "none"
    /\ commands' = <<>>
    /\ UNCHANGED <<disk, writes, fsq, rx, watcher_handle, watcher, events>>
    /\ UNCHANGED stateVars

Entries == {"on_event", "execute_with_host"}

Next ==
    \/ \E n \in 1..MaxTask, s \in Written : WriteFile(n, s)
    \/ \E n \in 1..MaxTask, s \in Written : RemoveFile(n, s)
    \/ WatcherSetup
    \/ WatcherDeliver
    \/ \E config \in ConfigValues : ConfigLoaded(config)
    \/ ConfigStore
    \/ ConfigScan
    \/ ConfigSend
    \/ OnEventPending
    \/ \E e \in Entries : PollNoTasklist(e)
    \/ \E e \in Entries : PollDrain(e)
    \/ ProcessEvent
    \/ PollReturn

Spec == Init /\ [][Next]_vars

\* --------------------------------------------- switching between tasklists
\* Two tasklists hold a task file each when the plugin is constructed, so
\* that the user can select one and then the other; or no tasklist holds any.
SwitchInit ==
    /\ disk \in { [p \in FilePaths |-> Absent],
                   [p \in FilePaths |->
                      IF FileNameOf(p) = TaskFileName(1)
                      THEN TaskFile(ClaudeTask(TaskId(1), <<"T", Digits[1]>>,
                                               "pending", <<>>))
                      ELSE Absent] }
    /\ writes = 0
    /\ fsq = <<>>
    /\ rx = None
    /\ watcher_handle = None
    /\ selected_tasklist = None
    /\ known_tasks = {}
    /\ guidance_state = "None"
    /\ guidance_shown = FALSE
    /\ pending_commands = <<>>
    /\ is_tracking = FALSE
    /\ pc = "idle"
    /\ entry = "none"
    /\ events = <<>>
    /\ commands = <<>>
    /\ watcher = NoWatcher
    /\ mirror = <<>>
    /\ obs = NoObs
    /\ unseen = {}
    /\ dropped = {}
    /\ poll = NoPoll
    /\ call = NoCall

\* the plugin without the external writer: the task files stay as they are,
\* so the debouncer has nothing to deliver
SwitchNext ==
    \/ WatcherSetup
    \/ \E config \in ConfigValues : ConfigLoaded(config)
    \/ ConfigStore
    \/ ConfigScan
    \/ ConfigSend
    \/ OnEventPending
    \/ \E e \in Entries : PollNoTasklist(e)
    \/ \E e \in Entries : PollDrain(e)
    \/ ProcessEvent
    \/ PollReturn

SpecSwitch == SwitchInit /\ [][SwitchNext]_vars

\* ------------------------------- switching while the tasklists are written
\* Both tasklists hold the first task file, and the external writer goes on
\* writing task files in either of them.
ResyncInit ==
    /\ SwitchInit
    /\ disk # [p \in FilePaths |-> Absent]

ResyncWrite(n, s) ==
    /\ writes < MaxResyncWrites
    /\ WriteFile(n, s)

ResyncNext ==
    \/ \E n \in 1..MaxTask, s \in Sources : ResyncWrite(n, s)
    \/ WatcherDeliver
    \/ SwitchNext

SpecResync == ResyncInit /\ [][ResyncNext]_vars

\* ------------------------------------------------- the full scan, run alone
\* The InitialScan arm applied repeatedly to one selected tasklist while the
\* external writer changes its files: the Correlation State (known_tasks) and
\* the downstream list carry over from one run to the next.
ScanInit ==
    /\ disk \in InitialDisks
    /\ writes = 0
    /\ fsq = <<>>
    /\ rx = Some(<<>>)
    /\ watcher_handle = Some(TasklistPath(<<"s1">>))
    /\ selected_tasklist = Some(TasklistPath(<<"s1">>))
    /\ known_tasks = {}
    /\ guidance_state = "None"
    /\ guidance_shown = FALSE
    /\ pending_commands = <<>>
    /\ is_tracking = FALSE
    /\ pc = "idle"
    /\ entry = "none"
    /\ events = <<>>
    /\ commands = <<>>
    /\ watcher = [st |-> "exited", path |-> TasklistPath(<<"s1">>)]
    /\ mirror = <<>>
    /\ obs = NoObs
    /\ unseen = {}
    /\ dropped = {}
    /\ poll = NoPoll
    /\ call = NoCall

FullScan ==
    /\ UNCHANGED <<call, poll>>
    /\ InitialScanArm
    /\ UNCHANGED <<disk, writes, fsq, rx, watcher_handle, watcher, selected_tasklist,
                   guidance_state, guidance_shown, pending_commands, is_tracking>>
    /\ UNCHANGED consumerVars

ScanNext ==
    \/ \E n \in 1..MaxTask, s \in Written : WriteFile(n, s)
    \/ \E n \in 1..MaxTask, s \in Written : RemoveFile(n, s)
    \/ FullScan

SpecScan == ScanInit /\ [][ScanNext]_vars

\* ------------------------------------------- build_hierarchy, run alone
\* the plugin as constructed, with nothing on disk: it takes no step while a
\* function or a component is run alone
Parked ==
    /\ disk = [p \in FilePaths |-> Absent]
    /\ writes = 0
    /\ fsq = <<>>
    /\ rx = None
    /\ watcher_handle = None
    /\ selected_tasklist = None
    /\ known_tasks = {}
    /\ guidance_state = "None"
    /\ guidance_shown = FALSE
    /\ pending_commands = <<>>
    /\ is_tracking = FALSE
    /\ pc = "idle"
    /\ entry = "none"
    /\ events = <<>>
    /\ commands = <<>>
    /\ watcher = NoWatcher
    /\ mirror = <<>>
    /\ obs = NoObs
    /\ unseen = {}
    /\ dropped = {}
    /\ poll = NoPoll

\* blocked_by lists: ids of the tasks and one id no task has, none twice
BlockerIds == {TaskId(n) : n \in 1..MaxGraph} \cup {<<"?">>}
BlockerLists ==
    UNION { {b \in [1..k -> BlockerIds] : \A i, j \in 1..k : i # j => b[i] # b[j]} :
            k \in 0..MaxBlockers }

\* the caller hands build_hierarchy a task list: up to MaxGraph tasks of
\* distinct ids, in any order
HierarchyInput ==
    /\ call.fn = "none"
    /\ \E k \in 1..MaxGraph :
        \E o \in {f \in [1..k -> 1..MaxGraph] : \A i, j \in 1..k : i # j => f[i] # f[j]} :
        \E b \in [1..k -> BlockerLists] :
            call' = [fn |-> "input",
                     tasks |-> [i \in 1..k |->
                        ClaudeTask(TaskId(o[i]), <<"T", Digits[o[i]]>>, "pending", b[i])]]
    /\ UNCHANGED pluginVars

BuildHierarchy ==
    /\ call.fn = "input"
    /\ call' = [fn |-> "build_hierarchy", tasks |-> call.tasks,
                hierarchy |-> build_hierarchy(call.tasks)]
    /\ UNCHANGED pluginVars

HierarchyNext == HierarchyInput \/ BuildHierarchy

HierarchyInit ==
    /\ Parked
    /\ call = NoCall

SpecHierarchy == HierarchyInit /\ [][HierarchyNext]_vars

\* --------------------------------------------- staleness.rs, run alone
SecondsPerMinute == 60

\* StalenessTracker::new
StalenessTracker_new(threshold_minutes) ==
    [last_update |-> None, threshold |-> threshold_minutes * SecondsPerMinute]

\* StalenessTracker::record_update at the instant `now`
record_update(tracker, now) == [tracker EXCEPT !.last_update = Some(now)]

\* check_staleness that takes an untracked tracker as updated at the clock's origin
check_staleness_untracked_from_origin(tracker, now) ==
    LET elapsed == IF tracker.last_update = None THEN now
                   ELSE now - tracker.last_update[1]
    IN  IF elapsed > tracker.threshold THEN Some(elapsed) ELSE None
\* check_staleness that is stale from the threshold on
check_staleness_inclusive(tracker, now) ==
    IF tracker.last_update = None THEN None
    ELSE LET elapsed == now - tracker.last_update[1]
         IN  IF elapsed >= tracker.threshold THEN Some(elapsed) ELSE None
\* StalenessTracker::check_staleness at the instant `now`
check_staleness(tracker, now) ==
    IF tracker.last_update = None THEN None
    ELSE LET elapsed == now - tracker.last_update[1]
         IN  IF elapsed > tracker.threshold THEN Some(elapsed) ELSE None

\* StalenessTracker::is_tracking
StalenessTracker_is_tracking(tracker) == tracker.last_update # None

\* a tracker is created; `recorded` tells whether record_update was ever
\* called on it and `recorded_at` when it was called last
TrackerNew ==
    /\ call.fn = "none"
    /\ \E threshold_minutes \in 0..MaxThresholdMinutes :
        call' = [fn |-> "new", tracker |-> StalenessTracker_new(threshold_minutes),
                 threshold_minutes |-> threshold_minutes, now |-> 0,
                 recorded |-> FALSE, recorded_at |-> 0, result |-> None]
    /\ UNCHANGED pluginVars

\* the monotonic clock advances by a second
TrackerElapse ==
    /\ call.fn # "none"
    /\ call.now < MaxTime
    /\ call' = [call EXCEPT !.fn = "elapse", !.now = @ + 1, !.result = None]
    /\ UNCHANGED pluginVars

TrackerRecordUpdate ==
    /\ call.fn # "none"
    /\ call' = [call EXCEPT !.fn = "record_update",
                            !.tracker = record_update(@, call.now),
                            !.recorded = TRUE, !.recorded_at = call.now,
                            !.result = None]
    /\ UNCHANGED pluginVars

TrackerCheck ==
    /\ call.fn # "none"
    /\ call' = [call EXCEPT !.fn = "check_staleness",
                            !.result = check_staleness(call.tracker, call.now)]
    /\ UNCHANGED pluginVars

StalenessNext == TrackerNew \/ TrackerElapse \/ TrackerRecordUpdate \/ TrackerCheck

StalenessInit ==
    /\ Parked
    /\ call = NoCall

SpecStaleness == StalenessInit /\ [][StalenessNext]_vars

\* ------------------------------------------- translate_event, run alone
\* notify::EventKind
EventKinds == {"Any", "Access", "Create", "Modify", "Remove", "Other"}

\* file names the watched directory may report
EventFileNames ==
    { <<"1", ".", "json">>, <<"1", ".", "txt">>, <<"1">>, <<".", "json">>,
      <<"1", ".", "JSON">>, <<"1", ".", "json", ".", "bak">> }

EventPaths == {FilePath(TasklistPath(<<"s1">>), name) : name \in EventFileNames}

TranslateInput ==
    /\ call.fn = "none"
    /\ \E kind \in EventKinds, k \in 0..MaxPaths : \E paths \in [1..k -> EventPaths] :
        call' = [fn |-> "event", event |-> [kind |-> kind, paths |-> paths]]
    /\ UNCHANGED pluginVars

Translate ==
    /\ call.fn = "event"
    /\ call' = [fn |-> "translate_event", event |-> call.event,
                result |-> translate_event(call.event)]
    /\ UNCHANGED pluginVars

TranslateNext == TranslateInput \/ Translate

TranslateInit ==
    /\ Parked
    /\ call = NoCall

SpecTranslate == TranslateInit /\ [][TranslateNext]_vars

\* ------------------------------- WatcherHandle and its thread, run alone
\* start_watcher: the thread is spawned and the handle holds its JoinHandle
\* and the shutdown flag; `token` is the thread's park token, `watching`
\* tells whether the debouncer holds the directory watch, `waited` whether a
\* join has had to wait for the thread
StartWatcher ==
    /\ call.fn = "none"
    /\ call' = [fn |-> "start_watcher", worker |-> "new_debouncer",
                watching |-> FALSE, shutdown_flag |-> FALSE, token |-> FALSE,
                thread_handle |-> TRUE, caller |-> "idle", took |-> FALSE,
                shutdowns |-> 0, blocked |-> FALSE, waited |-> FALSE]
    /\ UNCHANGED pluginVars

\* the thread: new_debouncer, which may fail
WorkerNewDebouncer ==
    /\ call.fn # "none" /\ call.worker = "new_debouncer"
    /\ \E ok \in BOOLEAN :
        call' = [call EXCEPT !.fn = "worker",
                             !.worker = IF ok THEN "watch" ELSE "exited"]
    /\ UNCHANGED pluginVars

\* the thread: debouncer.watch, which may fail; the debouncer is dropped on return
WorkerWatch ==
    /\ call.fn # "none" /\ call.worker = "watch"
    /\ \E ok \in BOOLEAN :
        call' = [call EXCEPT !.fn = "worker",
                             !.worker = IF ok THEN "check" ELSE "exited",
                             !.watching = ok]
    /\ UNCHANGED pluginVars

\* the thread: if shutdown_for_thread.load() { break }, the debouncer going
\* out of scope at the end of the closure
WorkerCheck ==
    /\ call.fn # "none" /\ call.worker = "check"
    /\ call' = [call EXCEPT !.fn = "worker",
                            !.worker = IF call.shutdown_flag THEN "exited" ELSE "park",
                            !.watching = ~call.shutdown_flag]
    /\ UNCHANGED pluginVars

\* the thread: thread::park_timeout takes the token if there is one and
\* returns, or blocks
WorkerPark ==
    /\ call.fn # "none" /\ call.worker = "park"
    /\ call' = [call EXCEPT !.fn = "worker",
                            !.worker = IF call.token THEN "check" ELSE "parked",
                            !.token = FALSE]
    /\ UNCHANGED pluginVars

\* the thread: park_timeout returns, by an unpark or after its 100 ms
WorkerWake ==
    /\ call.fn # "none" /\ call.worker = "parked"
    /\ call' = [call EXCEPT !.fn = "worker", !.worker = "check", !.token = FALSE]
    /\ UNCHANGED pluginVars

WorkerStep ==
    WorkerNewDebouncer \/ WorkerWatch \/ WorkerCheck \/ WorkerPark \/ WorkerWake

\* shutdown() is entered, by an explicit call or by Drop
ShutdownCall ==
    /\ call.fn # "none" /\ call.caller = "idle"
    /\ call.shutdowns < MaxShutdowns
    /\ call' = [call EXCEPT !.fn = "shutdown", !.caller = "store",
                            !.shutdowns = @ + 1, !.took = FALSE, !.blocked = FALSE]
    /\ UNCHANGED pluginVars

\* shutdown that goes on to join without setting the flag
ShutdownStore_leaves_flag ==
    /\ call.fn # "none" /\ call.caller = "store"
    /\ call' = [call EXCEPT !.fn = "shutdown", !.caller = "take"]
    /\ UNCHANGED pluginVars
\* self.shutdown_flag.store(true)
ShutdownStore ==
    /\ call.fn # "none" /\ call.caller = "store"
    /\ call' = [call EXCEPT !.fn = "shutdown", !.caller = "take",
                            !.shutdown_flag = TRUE]
    /\ UNCHANGED pluginVars

\* if let Some(handle) = self.thread_handle.take()
ShutdownTake ==
    /\ call.fn # "none" /\ call.caller = "take"
    /\ call' = [call EXCEPT !.fn = "shutdown",
                            !.caller = IF call.thread_handle THEN "unpark" ELSE "return",
                            !.took = call.thread_handle,
                            !.thread_handle = FALSE]
    /\ UNCHANGED pluginVars

\* handle.thread().unpark(): no token is left for a thread that has exited
ShutdownUnpark ==
    /\ call.fn # "none" /\ call.caller = "unpark"
    /\ call' = [call EXCEPT !.fn = "shutdown", !.caller = "join",
                            !.token = call.worker # "exited"]
    /\ UNCHANGED pluginVars

\* handle.join() finds the thread still running and blocks
ShutdownBlock ==
    /\ call.fn # "none" /\ call.caller = "join"
    /\ call.worker # "exited"
    /\ ~call.blocked
    /\ call' = [call EXCEPT !.fn = "shutdown", !.blocked = TRUE, !.waited = TRUE]
    /\ UNCHANGED pluginVars

\* handle.join() returns once the thread has exited
ShutdownJoin ==
    /\ call.fn # "none" /\ call.caller = "join"
    /\ call.worker = "exited"
    /\ call' = [call EXCEPT !.fn = "shutdown", !.caller = "return"]
    /\ UNCHANGED pluginVars

ShutdownReturn ==
    /\ call.fn # "none" /\ call.caller = "return"
    /\ call' = [call EXCEPT !.fn = "returned", !.caller = "idle"]
    /\ UNCHANGED pluginVars

CallerStep ==
    ShutdownStore \/ ShutdownTake \/ ShutdownUnpark \/ ShutdownBlock \/ ShutdownJoin
        \/ ShutdownReturn

ShutdownNext == StartWatcher \/ WorkerStep \/ ShutdownCall \/ CallerStep

ShutdownInit ==
    /\ Parked
    /\ call = NoCall

\* both threads are scheduled again and again
SpecShutdown ==
    ShutdownInit /\ [][ShutdownNext]_vars /\ WF_vars(WorkerStep) /\ WF_vars(CallerStep)

\* -------------------------------------- scan_tasks_directory, run alone
\* a file std::fs::read_to_string fails on
Unreadable == [kind |-> "unreadable"]

\* std::fs::read_dir failing on the path
NoDirectory == [kind |-> "no directory"]

\* the names of the entries: record files, a file of another extension, a
\* file without extension
EntryName(n) ==
    IF n <= 2 THEN TaskFileName(n)
    ELSE IF n = 3 THEN <<Digits[n], ".", "txt">>
    ELSE <<Digits[n]>>

EntryMenu(n) ==
    { Absent, Malformed, Unreadable,
      TaskFile(ClaudeTask(TaskId(n), <<"T", Digits[n]>>, "pending", <<>>)) }

\* scan_tasks_directory from its read_dir on
scan_tasks_directory_at(directory, order) ==
    IF directory = NoDirectory THEN <<>>
    ELSE scan_tasks_directory(directory.entries, order)

ScanDirInput ==
    /\ call.fn = "none"
    /\ \/ call' = [fn |-> "directory", directory |-> NoDirectory, order |-> <<>>]
       \/ \E c1 \in EntryMenu(1), c2 \in EntryMenu(2), c3 \in EntryMenu(3) :
          \E cs \in [4..MaxEntries -> UNION {EntryMenu(n) : n \in 4..MaxEntries}] :
            LET entries == [name \in {EntryName(n) : n \in 1..MaxEntries} |->
                               IF name = EntryName(1) THEN c1
                               ELSE IF name = EntryName(2) THEN c2
                               ELSE IF name = EntryName(3) THEN c3
                               ELSE cs[CHOOSE n \in 4..MaxEntries : EntryName(n) = name]]
            IN  \E order \in ReadDirOrders(entries) :
                    call' = [fn |-> "directory",
                             directory |-> [kind |-> "directory", entries |-> entries],
                             order |-> order]
    /\ UNCHANGED pluginVars

ScanDir ==
    /\ call.fn = "directory"
    /\ call' = [fn |-> "scan_tasks_directory", directory |-> call.directory,
                order |-> call.order,
                result |-> scan_tasks_directory_at(call.directory, call.order)]
    /\ UNCHANGED pluginVars

ScanDirNext == ScanDirInput \/ ScanDir

ScanDirInit ==
    /\ Parked
    /\ call = NoCall

SpecScanDir == ScanDirInit /\ [][ScanDirNext]_vars

\* ------------------------------------- the locks of lib.rs, run alone
\* What a callback does to the mutexes, in program order, without the data:
\* a lock or an unlock (the end of a guard's scope) of one of the mutexes of
\* ClaudeTasksPlugin, a read of the file system, another step, a branch, a
\* loop over a list of at most n elements, an early return, and the two halves
\* of WatcherHandle::shutdown: the signal to the watcher thread and the join.
Locks == {"watcher_handle", "state", "rx", "tx", "notifier"}
Lock(l) == [op |-> "lock", l |-> l]
Unlock(l) == [op |-> "unlock", l |-> l]
Io(what) == [op |-> "io", what |-> what]
Act(what) == [op |-> "act", what |-> what]
Choice(alts) == [op |-> "choice", alts |-> alts]
Loop(body, n) == [op |-> "loop", body |-> body, n |-> n]
SignalThread == [op |-> "signal"]
JoinThread == [op |-> "join"]
Return == [op |-> "return"]

\* the InitialScan arm that takes the state lock once, at its top
InitialScanArmLocks_holds_lock ==
    << Lock("state"), Act("get_alias"),
       Io("process_initial_scan_local"),
       Act("clear_known_tasks, mark_task_known"), Unlock("state") >>
\* the InitialScan arm of the event loop
InitialScanArmLocks ==
    << Lock("state"), Act("get_alias"), Unlock("state"),
       Io("process_initial_scan_local"),
       Lock("state"), Act("clear_known_tasks, mark_task_known"), Unlock("state") >>

\* the FileChanged arm of the event loop
FileChangedArmLocks ==
    << Lock("state"), Act("is_task_known"), Unlock("state"),
       Io("process_file_change_local"),
       Choice({ <<>>,
                <<Lock("state"), Act("mark_task_known"), Unlock("state")>> }) >>

\* the FileRemoved arm of the event loop
FileRemovedArmLocks ==
    << Act("process_file_removal_local"),
       Choice({ <<>>,
                <<Lock("state"), Act("forget_task"), Unlock("state")>> }) >>

process_sync_events_local_locks ==
    << Lock("state"),
       Choice({ <<Unlock("state"), Return>>, <<Unlock("state")>> }),
       Lock("rx"),
       Choice({ <<Unlock("rx"), Return>>, <<Act("try_recv"), Unlock("rx")>> }),
       Choice({ <<>>, <<Lock("state"), Act("record_update"), Unlock("state")>> }),
       Lock("state"), Act("is_guidance_shown"), Unlock("state"),
       Choice({ <<>>, <<Lock("state"), Act("clear_guidance"), Unlock("state")>> }),
       Loop(<<Choice({InitialScanArmLocks, FileChangedArmLocks, FileRemovedArmLocks})>>,
            MaxLoop) >>

execute_with_host_locks == process_sync_events_local_locks

on_event_locks ==
    << Lock("state"), Act("take_pending_commands"), Unlock("state"),
       Choice({ <<Return>>, <<>> }) >>
    \o process_sync_events_local_locks
    \o << Lock("state"), Act("format_staleness"), Unlock("state") >>

\* start_watcher returns Ok on every path, so the Err arm is left out
on_config_loaded_locks ==
    << Lock("watcher_handle"), Lock("state"),
       Choice({ <<Unlock("state"), Unlock("watcher_handle"), Return>>,
                <<Unlock("state"), Unlock("watcher_handle")>> }),
       Io("load_config"),
       Io("discover_tasklists"),
       Choice({ <<Lock("state"), Act("set_guidance"), Unlock("state"), Return>>,
                <<Return>>,
                << Lock("state"), Act("selected_tasklist"), Unlock("state"),
                   Lock("rx"), Act("store rx"), Unlock("rx"),
                   Lock("tx"), Act("store tx"), Unlock("tx"),
                   Act("start_watcher"),
                   Lock("watcher_handle"), Act("store handle"), SignalThread, JoinThread,
                   Unlock("watcher_handle"),
                   Io("scan_tasks_directory"),
                   Choice({ <<>>,
                            <<Lock("state"), Act("set_guidance"), Unlock("state")>> }),
                   Act("send InitialScan") >> }) >>

set_notifier_locks == << Lock("notifier"), Act("store notifier"), Unlock("notifier") >>

\* a debouncer callback that never lets go of the notifier
debouncer_callback_locks_keeps_notifier ==
    << Act("translate_event, send"),
       Choice({ <<>>,
                <<Lock("notifier"), Act("invoke notifier")>> }) >>
\* the debouncer callback
debouncer_callback_locks ==
    << Act("translate_event, send"),
       Choice({ <<>>,
                <<Lock("notifier"), Act("invoke notifier"), Unlock("notifier")>> }) >>

Callbacks == {"on_config_loaded", "on_event", "execute_with_host", "set_notifier"}

LocksOf(callback) ==
    CASE callback = "on_config_loaded" -> on_config_loaded_locks
      [] callback = "on_event" -> on_event_locks
      [] callback = "execute_with_host" -> execute_with_host_locks
      [] callback = "set_notifier" -> set_notifier_locks

\* one step of a thread through its instructions `todo`, with the mutexes
\* `held`: the thread's instructions and the mutexes afterwards
Steps(thread, todo, held) ==
    LET i == Head(todo)
        rest == Tail(todo)
    IN  CASE i.op = "lock" ->
                IF held[i.l] = "none"
                THEN {[todo |-> rest, held |-> [held EXCEPT ![i.l] = thread]]}
                ELSE {}
          [] i.op = "unlock" ->
                {[todo |-> rest, held |-> [held EXCEPT ![i.l] = "none"]]}
          [] i.op \in {"io", "act", "signal", "join"} -> {[todo |-> rest, held |-> held]}
          [] i.op = "choice" -> {[todo |-> alt \o rest, held |-> held] : alt \in i.alts}
          [] i.op = "loop" ->
                {[todo |-> rest, held |-> held]}
                \cup {[todo |-> i.body \o <<Loop(i.body, i.n - 1)>> \o rest, held |-> held] :
                        k \in {i.n} \ {0}}
          [] i.op = "return" -> {[todo |-> <<>>, held |-> held]}

\* the host calls a callback on the consumer's thread
ConsumerCall ==
    /\ call.fn = "none" \/ (call.fn = "locks" /\ call.consumer = <<>>)
    /\ \E callback \in Callbacks :
        call' = [fn |-> "locks", callback |-> callback, consumer |-> LocksOf(callback),
                 debouncer |-> IF call.fn = "none" THEN <<>> ELSE call.debouncer,
                 held |-> IF call.fn = "none" THEN [l \in Locks |-> "none"]
                          ELSE call.held,
                 watching |-> IF call.fn = "none" THEN FALSE ELSE call.watching,
                 stored |-> IF call.fn = "none" THEN "none" ELSE call.stored,
                 old |-> IF call.fn = "none" THEN "none" ELSE call.old,
                 spawned |-> IF call.fn = "none" THEN "none" ELSE call.spawned]
    /\ UNCHANGED pluginVars

\* the consumer's next statement. `spawned` is the thread start_watcher has
\* spawned and whose handle is not stored yet, `stored` the thread of the
\* stored handle, `old` the thread of the handle that is being dropped; a
\* thread is running, stopping (its shutdown flag is set) or exited. The join
\* waits until the old thread has exited.
ConsumerStep ==
    /\ call.fn = "locks" /\ call.consumer # <<>>
    /\ Head(call.consumer) = JoinThread => call.old \in {"none", "exited"}
    /\ \E next \in Steps("consumer", call.consumer, call.held) :
        LET i == Head(call.consumer)
        IN  call' = [call EXCEPT
                        !.consumer = next.todo,
                        !.held = next.held,
                        !.watching = @ \/ i = Act("start_watcher"),
                        !.spawned = IF i = Act("start_watcher") THEN "running"
                                    ELSE IF i = Act("store handle") THEN "none" ELSE @,
                        !.stored = IF i = Act("store handle") THEN call.spawned ELSE @,
                        !.old = IF i = Act("store handle") THEN call.stored
                                ELSE IF i = SignalThread /\ @ = "running" THEN "stopping"
                                ELSE IF i = JoinThread THEN "none" ELSE @]
    /\ UNCHANGED pluginVars

\* a watcher thread returns because its setup failed
WatcherExit ==
    /\ call.fn = "locks"
    /\ \E t \in {"spawned", "stored", "old"} :
        /\ call[t] = "running"
        /\ call' = [call EXCEPT ![t] = "exited"]
    /\ UNCHANGED pluginVars

\* the old watcher thread sees the shutdown flag and returns
WatcherStop ==
    /\ call.fn = "locks"
    /\ call.old = "stopping"
    /\ call' = [call EXCEPT !.old = "exited"]
    /\ UNCHANGED pluginVars

\* the debouncer delivers a batch on its thread
DebouncerCall ==
    /\ call.fn = "locks" /\ call.watching /\ call.debouncer = <<>>
    /\ call' = [call EXCEPT !.debouncer = debouncer_callback_locks]
    /\ UNCHANGED pluginVars

DebouncerStep ==
    /\ call.fn = "locks" /\ call.debouncer # <<>>
    /\ \E next \in Steps("debouncer", call.debouncer, call.held) :
        call' = [call EXCEPT !.debouncer = next.todo, !.held = next.held]
    /\ UNCHANGED pluginVars

LocksNext ==
    \/ ConsumerCall
    \/ ConsumerStep
    \/ DebouncerCall
    \/ DebouncerStep
    \/ WatcherExit
    \/ WatcherStop

LocksInit ==
    /\ Parked
    /\ call = NoCall

SpecLocks == LocksInit /\ [][LocksNext]_vars

\* the same with the threads scheduled fairly: a thread that can take a step
\* again and again takes it (a mutex is handed over sooner or later), and a
\* watcher thread whose flag is set leaves its park loop
SpecLocksFair ==
    /\ LocksInit
    /\ [][LocksNext]_vars
    /\ SF_vars(ConsumerStep)
    /\ SF_vars(DebouncerStep)
    /\ WF_vars(WatcherStop)

\* --------------------------------------- the debouncer callback, run alone
\* The closure start_watcher gives to new_debouncer, for one DebounceEventResult:
\* `channel` is what the receiver holds of this batch, `seen` what it held
\* when the notifier was invoked.
BatchEvents ==
    { [kind |-> kind, paths |-> <<FilePath(TasklistPath(<<"s1">>), name)>>] :
        kind \in {"Create", "Remove", "Access"},
        name \in {<<"1", ".", "json">>, <<"1", ".", "txt">>} }

CallbackBegin ==
    /\ call.fn = "none" \/ (call.fn = "debouncer_callback" /\ call.step = "done")
    /\ \E ok \in BOOLEAN, has_notifier \in BOOLEAN, k \in 0..MaxBatch :
        \E batch \in [1..k -> BatchEvents] :
            call' = [fn |-> "debouncer_callback", ok |-> ok, all |-> batch,
                     batch |-> batch, has_notifier |-> has_notifier,
                     channel |-> <<>>, sent_any |-> FALSE,
                     step |-> IF ok THEN "for" ELSE "done",
                     invoked |-> FALSE, seen |-> <<>>]
    /\ UNCHANGED pluginVars

\* a callback that wakes the host after every event it sends
CallbackSend_notifies_each ==
    /\ call.fn = "debouncer_callback" /\ call.step = "for" /\ call.batch # <<>>
    /\ LET sync_event == translate_event(Head(call.batch))
       IN  call' = IF sync_event = None
                   THEN [call EXCEPT !.batch = Tail(@)]
                   ELSE [call EXCEPT !.batch = Tail(@),
                                     !.channel = Append(@, sync_event[1]),
                                     !.sent_any = TRUE,
                                     !.invoked = @ \/ call.has_notifier,
                                     !.seen = IF call.has_notifier /\ ~call.invoked
                                              THEN Append(call.channel, sync_event[1])
                                              ELSE @]
    /\ UNCHANGED pluginVars
\* for event in events: translate it and send it
CallbackSend ==
    /\ call.fn = "debouncer_callback" /\ call.step = "for" /\ call.batch # <<>>
    /\ LET sync_event == translate_event(Head(call.batch))
       IN  call' = IF sync_event = None
                   THEN [call EXCEPT !.batch = Tail(@)]
                   ELSE [call EXCEPT !.batch = Tail(@),
                                     !.channel = Append(@, sync_event[1]),
                                     !.sent_any = TRUE]
    /\ UNCHANGED pluginVars

\* if sent_any: lock the notifier and call it when one is set
CallbackNotify ==
    /\ call.fn = "debouncer_callback" /\ call.step = "for" /\ call.batch = <<>>
    /\ call' = IF call.sent_any /\ call.has_notifier
               THEN [call EXCEPT !.step = "done", !.invoked = TRUE, !.seen = call.channel]
               ELSE [call EXCEPT !.step = "done"]
    /\ UNCHANGED pluginVars

NotifyNext == CallbackBegin \/ CallbackSend \/ CallbackNotify

NotifyInit ==
    /\ Parked
    /\ call = NoCall

SpecNotify == NotifyInit /\ [][NotifyNext]_vars

\* ------------------------------------------- one task file, run alone
\* The three arms of the event loop applied to one file of the tasklist s1
\* whose record id need not be its file name's stem: `known` is known_tasks,
\* `ops` the commands emitted so far.
OneFileInput ==
    /\ call.fn = "none"
    /\ \E stem \in 1..MaxTask, id \in 1..MaxTask :
        call' = [fn |-> "file", file_name |-> TaskFileName(stem),
                 task |-> ClaudeTask(TaskId(id), <<"T", Digits[id]>>, "pending", <<>>),
                 known |-> {}, ops |-> <<>>, handled |-> 0]
    /\ UNCHANGED pluginVars

\* the file is written and its FileChanged event is processed
OneFileChanged ==
    /\ call.fn = "file" /\ call.handled < MaxFileEvents
    /\ LET stem == FileStem(call.file_name)
           is_known == stem # None /\ stem[1] \in call.known
           r == process_file_change_local(call.file_name, Some(call.task),
                                          <<"s1">>, is_known)
       IN  call' = [call EXCEPT
                        !.ops = @ \o (IF r = None THEN <<>> ELSE r[1].commands),
                        !.known = IF r # None /\ ~is_known
                                  THEN mark_task_known(@, r[1].task_id) ELSE @,
                        !.handled = @ + 1]
    /\ UNCHANGED pluginVars

\* the file is removed and its FileRemoved event is processed
OneFileRemoved ==
    /\ call.fn = "file" /\ call.handled < MaxFileEvents
    /\ LET r == process_file_removal_local(call.file_name, <<"s1">>)
       IN  call' = [call EXCEPT
                        !.ops = @ \o (IF r = None THEN <<>> ELSE <<r[1].command>>),
                        !.known = IF r # None THEN forget_task(@, r[1].task_id) ELSE @,
                        !.handled = @ + 1]
    /\ UNCHANGED pluginVars

\* an InitialScan event is processed while the file is there
OneFileScanned ==
    /\ call.fn = "file" /\ call.handled < MaxFileEvents
    /\ LET r == process_initial_scan_local(<<call.task>>, <<"s1">>, None)
       IN  call' = [call EXCEPT !.ops = @ \o r.commands,
                                !.known = MarkAllKnown(r.task_ids),
                                !.handled = @ + 1]
    /\ UNCHANGED pluginVars

OneFileNext == OneFileInput \/ OneFileChanged \/ OneFileRemoved \/ OneFileScanned

OneFileInit ==
    /\ Parked
    /\ call = NoCall

SpecOneFile == OneFileInit /\ [][OneFileNext]_vars

\* ================================================================ properties
\* obs describes one iteration of the event loop
Step == obs.act \in {"initial_scan", "file_changed", "file_removed"}

ItemId(task_id) == task_todo_id(TasklistId, task_id)
ItemIds(task_ids) == {ItemId(t) : t \in task_ids}
StemOf(path) == FileStem(FileNameOf(path))[1]

\* CreateItem: a CreateTodo placed under the header; CreateHeader has no parent
IsCreateItem(c) == c.op = "CreateTodo" /\ c.parent_id # None
IsCreateHeader(c) == c.op = "CreateTodo" /\ c.temp_id = Some(header_id(TasklistId))

CreatedIn(cmds) == {cmds[i].temp_id[1] : i \in {j \in 1..Len(cmds) : IsCreateItem(cmds[j])}}
DeletedIn(cmds) == {cmds[i].id : i \in {j \in 1..Len(cmds) : cmds[j].op = "DeleteTodo"}}

\* the ids of the well-formed task files of the selected tasklist, and the
\* stems of the files present in it
WellFormedIds ==
    {disk[p].task.id : p \in {q \in DOMAIN disk :
        ParentOf(q) = selected_tasklist[1] /\ disk[q].kind = "task"}}
PresentIds ==
    {StemOf(p) : p \in {q \in DOMAIN disk :
        ParentOf(q) = selected_tasklist[1] /\ disk[q].kind # "absent"}}

\* the mirrored task items: created and not deleted since
MirroredItems ==
    {id \in DOMAIN mirror : \E n \in 1..MaxTask : id = ItemId(TaskId(n))}

\* every change so far has been enqueued (or covered by the full scan) and
\* every enqueued event has been processed
Quiescent ==
    /\ selected_tasklist # None
    /\ pc = "idle"
    /\ rx = Some(<<>>)
    /\ fsq = <<>>
    /\ pending_commands = <<>>
    /\ unseen = {}

\* C1: no task item is created a second time unless it was deleted in
\* between: a CreateItem never addresses an item the downstream list still
\* holds when the command is applied.
C1_NoDuplicateCreation ==
    Step =>
        \A i \in 1..Len(obs.cmds) :
            IsCreateItem(obs.cmds[i]) =>
                obs.cmds[i].temp_id[1] \notin
                    DOMAIN ApplyCommands(obs.mirror_before, SubSeq(obs.cmds, 1, i - 1))

\* C2: once every change has been enqueued and every event processed, the
\* mirrored task items and known_tasks both are the ids of the well-formed
\* task files on disk.  (Such a state does not change while the files do
\* not, so the eventual agreement the claim promises would have to hold in
\* it already.)
C2_EventualConsistency ==
    Quiescent =>
        /\ MirroredItems = ItemIds(WellFormedIds)
        /\ known_tasks = WellFormedIds

\* C3: a full scan that directly follows a full scan (same files,
\* known_tasks carried over) emits no command, and a full scan creates the
\* header only when the downstream list does not hold it yet.
C3_FullScanIdempotent ==
    obs.act = "initial_scan" =>
        /\ obs.after_scan => obs.cmds = <<>>
        /\ (\E i \in 1..Len(obs.cmds) : IsCreateHeader(obs.cmds[i])) =>
                header_id(TasklistId) \notin DOMAIN obs.mirror_before

\* C4: a reconciliation step creates no item for an id that was known and
\* deletes no item for an id that was not; a full scan from known set K to
\* scanned set D creates exactly D \ K and deletes exactly K \ D.
C4_DiffMinimality ==
    Step =>
        LET K == obs.known_before
            created == CreatedIn(obs.cmds)
            deleted == DeletedIn(obs.cmds)
        IN  /\ created \cap ItemIds(K) = {}
            /\ deleted \subseteq ItemIds(K)
            /\ obs.act = "initial_scan" =>
                LET D == {obs.claude_tasks[i].id : i \in 1..Len(obs.claude_tasks)}
                IN  /\ created = ItemIds(D \ K)
                    /\ deleted = ItemIds(K \ D)

\* C5: a FileChanged event for a known id whose record has the subject and
\* the mapped state the downstream item already has emits no command.
C5_UpdateGating ==
    (/\ obs.act = "file_changed"
     /\ obs.is_known
     /\ obs.read # None
     /\ ItemId(StemOf(obs.path)) \in DOMAIN obs.mirror_before
     /\ obs.mirror_before[ItemId(StemOf(obs.path))].content = obs.read[1].subject
     /\ obs.mirror_before[ItemId(StemOf(obs.path))].state
            = map_status_to_state(obs.read[1].status))
    => obs.cmds = <<>>

\* C6: a FileRemoved event emits exactly one DeleteTodo, addressed to the
\* item id made of the tasklist id and the file stem; afterwards that id is
\* not known and no other id has entered or left known_tasks.
C6_RemovedDeletesOne ==
    obs.act = "file_removed" =>
        LET stem == StemOf(obs.path)
        IN  /\ obs.cmds = << [op |-> "DeleteTodo",
                              id |-> <<"claude-">> \o TasklistId \o <<"-">> \o stem] >>
            /\ stem \notin known_tasks
            /\ known_tasks \ {stem} = obs.known_before \ {stem}

\* C6 witness: a removed file's id was known, next to another known id
C6_Witness ==
    /\ obs.act = "file_removed"
    /\ StemOf(obs.path) \in obs.known_before
    /\ known_tasks # {}

\* the CreateTodo + SetTodoMetadata pair a command list holds for one task id
PairFor(cmds, task_id) ==
    LET at == {i \in 1..Len(cmds) :
                  IsCreateItem(cmds[i]) /\ cmds[i].temp_id = Some(ItemId(task_id))}
    IN  IF at = {} THEN <<>>
        ELSE LET i == CHOOSE j \in at : TRUE IN SubSeq(cmds, i, i + 1)

\* C7: a FileChanged event for an unknown id whose file parses emits the
\* pair of commands a full scan of the directory would emit for that record,
\* annotation included, and the id is known afterwards.
C7_IncrementalCreateAsFullScan ==
    (obs.act = "file_changed" /\ ~obs.is_known /\ obs.read # None) =>
        /\ \A order \in ReadDirOrders(DirAt(disk, selected_tasklist[1])) :
              obs.cmds =
                PairFor(process_initial_scan_local(
                            scan_tasks_directory(DirAt(disk, selected_tasklist[1]), order),
                            TasklistId, None).commands,
                        StemOf(obs.path))
        /\ StemOf(obs.path) \in known_tasks

\* C8: a FileChanged event for a known id whose file parses emits exactly
\* one command, the UpdateTodo of the item id made of the tasklist id and the
\* stem, with the record's subject and mapped state; known_tasks is unchanged.
C8_KnownChangeUpdatesOnce ==
    (obs.act = "file_changed" /\ obs.is_known /\ disk[obs.path].kind = "task") =>
        LET task == disk[obs.path].task
        IN  /\ obs.cmds =
                << [op |-> "UpdateTodo",
                    id |-> <<"claude-">> \o TasklistId \o <<"-">> \o StemOf(obs.path),
                    content |-> Some(task.subject),
                    state |-> Some(CASE task.status = "pending" -> "Empty"
                                     [] task.status = "in_progress" -> "InProgress"
                                     [] task.status = "completed" -> "Checked"
                                     [] OTHER -> "Empty")] >>
            /\ known_tasks = obs.known_before

\* C8 witness: a known task's file was rewritten with another subject and status
C8_Witness ==
    /\ obs.act = "file_changed"
    /\ obs.is_known
    /\ disk[obs.path].kind = "task"
    /\ ItemId(StemOf(obs.path)) \in DOMAIN obs.mirror_before
    /\ obs.mirror_before[ItemId(StemOf(obs.path))].state = "Empty"
    /\ disk[obs.path].task.status = "completed"
    /\ mirror[ItemId(StemOf(obs.path))].state = "Checked"

\* C9: a FileChanged event whose file is missing or malformed emits no
\* command and leaves known_tasks as it was; a FileChanged event for a path
\* whose previous event was dropped, the file now being well-formed, is
\* processed as any other: a create that makes the id known when the id is
\* unknown, a single update when it is known.
C9_ParseFailurePolicy ==
    obs.act = "file_changed" =>
        /\ disk[obs.path].kind # "task" =>
              /\ obs.cmds = <<>>
              /\ known_tasks = obs.known_before
        /\ (obs.retry /\ disk[obs.path].kind = "task") =>
              IF StemOf(obs.path) \in obs.known_before
              THEN /\ Len(obs.cmds) = 1
                   /\ obs.cmds[1].op = "UpdateTodo"
                   /\ known_tasks = obs.known_before
              ELSE /\ Len(obs.cmds) = 2
                   /\ IsCreateItem(obs.cmds[1])
                   /\ obs.cmds[1].temp_id = Some(ItemId(StemOf(obs.path)))
                   /\ obs.cmds[1].content = disk[obs.path].task.subject
                   /\ obs.cmds[2].op = "SetTodoMetadata"
                   /\ known_tasks = obs.known_before \cup {StemOf(obs.path)}

\* C9 witness: a path whose event was dropped is written well-formed, and the
\* next event creates the still unknown task
C9_Witness ==
    /\ obs.act = "file_changed"
    /\ obs.retry
    /\ disk[obs.path].kind = "task"
    /\ StemOf(obs.path) \notin obs.known_before
    /\ StemOf(obs.path) \in known_tasks
    /\ obs.cmds # <<>>

\* the content a full scan gives the item of ts[k]: the subject, behind the
\* circular-dependency warning when the task is on a cycle, or between the
\* lock and the names of its blockers when it has blockers in the scan
ScanContent(ts, k) ==
    LET h == build_hierarchy(ts)
        id == ts[k].id
    IN  IF id \in h.cyclic_tasks
        THEN <<"U+26A0 Circular dependency", " ">> \o ts[k].subject
        ELSE IF id \in DOMAIN h.annotations
             THEN <<"U+1F512", " ">> \o ts[k].subject \o <<" ">> \o h.annotations[id]
             ELSE ts[k].subject

AddressedBy(item(_, _), header(_)) ==
    /\ obs.act = "initial_scan" =>
          /\ obs.cmds[1].temp_id = Some(header(TasklistId))
          /\ \A k \in 1..Len(obs.claude_tasks) :
                /\ obs.cmds[2 * k].temp_id = Some(item(TasklistId, obs.claude_tasks[k].id))
                /\ obs.cmds[2 * k].parent_id = Some(header(TasklistId))
                /\ obs.cmds[2 * k + 1].todo_id = item(TasklistId, obs.claude_tasks[k].id)
    /\ (obs.act = "file_changed" /\ obs.cmds # <<>>) =>
          IF obs.is_known
          THEN obs.cmds[1].id = item(TasklistId, StemOf(obs.path))
          ELSE /\ obs.cmds[1].temp_id = Some(item(TasklistId, obs.read[1].id))
               /\ obs.cmds[1].parent_id = Some(header(TasklistId))
               /\ obs.cmds[2].todo_id = item(TasklistId, obs.read[1].id)
    /\ (obs.act = "file_removed" /\ obs.cmds # <<>>) =>
          obs.cmds[1].id = item(TasklistId, StemOf(obs.path))

SpecItemId(source, task) == source \o <<"-">> \o task
SpecHeaderId(source) == <<"header-">> \o source
CodeItemId(source, task) == <<"claude-">> \o source \o <<"-">> \o task
CodeHeaderId(source) == <<"claude-header-">> \o source

\* C11 as stated: every command for (source, task) addresses the item id
\* "<source_id>-<task_id>", and the header is "header-<source_id>".
C11_IdsAsSpecified == AddressedBy(SpecItemId, SpecHeaderId)

\* C11 amended: every command for (source, task) addresses the item id
\* "claude-<source_id>-<task_id>", whatever the state and the history, and the
\* header is "claude-header-<source_id>".
C11_DeterministicIds == AddressedBy(CodeItemId, CodeHeaderId)

\* C11 witness: an update addresses the item an earlier step created
C11_Witness ==
    /\ obs.act = "file_changed"
    /\ obs.is_known
    /\ obs.cmds # <<>>
    /\ obs.cmds[1].id \in DOMAIN obs.mirror_before

\* the blockers of a set of task ids that are tasks of the list themselves
BlockersIn(tasks, ids) ==
    {b \in {tasks[i].id : i \in 1..Len(tasks)} :
        \E i \in 1..Len(tasks) :
            tasks[i].id \in ids /\ b \in RangeOf(tasks[i].blocked_by)}

RECURSIVE ReachedIn(_, _, _)
\* the tasks reached from ids along one to n blocked-by edges
ReachedIn(tasks, ids, n) ==
    IF n = 0 THEN {}
    ELSE BlockersIn(tasks, ids) \cup ReachedIn(tasks, BlockersIn(tasks, ids), n - 1)

\* the task lies on a blocked-by cycle
OnCycle(tasks, id) == id \in ReachedIn(tasks, {id}, Len(tasks))

\* C12: every task on a blocked-by cycle, of any length and in any input
\* order, is in the cyclic set and carries the circular-dependency warning.
C12_CycleCompleteness ==
    call.fn = "build_hierarchy" =>
        \A i \in 1..Len(call.tasks) :
            OnCycle(call.tasks, call.tasks[i].id) =>
                /\ call.tasks[i].id \in call.hierarchy.cyclic_tasks
                /\ call.tasks[i].id \in DOMAIN call.hierarchy.annotations
                /\ call.hierarchy.annotations[call.tasks[i].id]
                        = <<"U+26A0 Circular dependency">>

\* the ids of a blocked_by list that are ids of tasks of the list, in order
RECURSIVE Resolvable(_, _)
Resolvable(blocked_by, tasks) ==
    IF blocked_by = <<>> THEN <<>>
    ELSE IF \E i \in 1..Len(tasks) : tasks[i].id = Head(blocked_by)
         THEN <<Head(blocked_by)>> \o Resolvable(Tail(blocked_by), tasks)
         ELSE Resolvable(Tail(blocked_by), tasks)

SubjectOf(tasks, id) == (CHOOSE t \in RangeOf(tasks) : t.id = id).subject

\* "(blocked by: S1, S2)" for the subjects of the given ids
RECURSIVE SubjectList(_, _)
SubjectList(tasks, ids) ==
    IF ids = <<>> THEN <<>>
    ELSE IF Len(ids) = 1 THEN SubjectOf(tasks, ids[1])
    ELSE SubjectOf(tasks, ids[1]) \o <<", ">> \o SubjectList(tasks, Tail(ids))

\* C13: a task on no cycle whose blocked_by ids are all ids of no task gets
\* no annotation; a task on no cycle with resolvable blockers is annotated
\* with the subjects of the resolvable ones only, in blocked_by order.
C13_UnresolvedBlockersDropped ==
    call.fn = "build_hierarchy" =>
        \A i \in 1..Len(call.tasks) :
            LET t == call.tasks[i]
                ids == Resolvable(t.blocked_by, call.tasks)
            IN  ~OnCycle(call.tasks, t.id) =>
                    IF ids = <<>>
                    THEN t.id \notin DOMAIN call.hierarchy.annotations
                    ELSE /\ t.id \in DOMAIN call.hierarchy.annotations
                         /\ call.hierarchy.annotations[t.id] =
                                <<"(blocked by: ">> \o SubjectList(call.tasks, ids) \o <<")">>

\* C13 witness: one task whose only blocker is unresolved has no annotation,
\* another with an unresolved and then a resolvable blocker is annotated
C13_Witness ==
    /\ call.fn = "build_hierarchy"
    /\ \E i, j \in 1..Len(call.tasks) :
        /\ call.tasks[i].blocked_by = <<<<"?">>>>
        /\ call.tasks[i].id \notin DOMAIN call.hierarchy.annotations
        /\ Len(call.tasks[j].blocked_by) = 2
        /\ call.tasks[j].blocked_by[1] = <<"?">>
        /\ call.tasks[j].blocked_by[2] = call.tasks[i].id
        /\ call.tasks[j].id \in DOMAIN call.hierarchy.annotations

\* ------------------------------------------------------------ guidance
IsGuidanceId(id) == \E i \in 1..Len(GUIDANCE_IDS) : GUIDANCE_IDS[i] = id
IsPlaceholderDelete(c) == c.op = "DeleteTodo" /\ IsGuidanceId(c.id)
IsPlaceholderCreate(c) ==
    c.op = "CreateTodo" /\ c.temp_id # None /\ IsGuidanceId(c.temp_id[1])
HasChanged(batch) == \E i \in 1..Len(batch) : batch[i].type = "FileChanged"
\* a poll that drained the channel has returned
BatchReturned == obs.act = "return" /\ obs.poll.running
\* the placeholder items the todo list held when the poll began
PlaceholdersBefore == {id \in DOMAIN obs.poll.mirror_before : IsGuidanceId(id)}

\* C14: when a poll has processed a batch holding a Changed event while the
\* guidance mode was not None, the mode is None afterwards and the returned
\* operations hold, for every placeholder item created before, a DeleteTodo
\* that is preceded by placeholder deletions only
C14_GuidanceClearing ==
    (BatchReturned /\ HasChanged(obs.poll.drained)
        /\ obs.poll.guidance_before # "None")
    => /\ guidance_state = "None"
       /\ ~guidance_shown
       /\ \A id \in PlaceholdersBefore :
            \E i \in 1..Len(obs.returned) :
                /\ obs.returned[i] = delete_todo_command(id)
                /\ \A j \in 1..i : IsPlaceholderDelete(obs.returned[j])

\* a poll cleared the guidance whose placeholders had been created, and it
\* returned a task operation after the deletions
C14_Witness ==
    /\ BatchReturned /\ HasChanged(obs.poll.drained)
    /\ obs.poll.guidance_before # "None"
    /\ Cardinality(PlaceholdersBefore) >= 3
    /\ \E i \in 1..Len(obs.returned) : ~IsPlaceholderDelete(obs.returned[i])

HasPlaceholderCreate(cmds) == \E i \in 1..Len(cmds) : IsPlaceholderCreate(cmds[i])
OnEventReturned == obs'.act = "return" /\ obs'.entry = "on_event"

\* C15: the placeholder operations queued in pending_commands are returned by
\* the next on_event poll, whole and alone, and the list is empty afterwards;
\* a poll that finds the list empty returns no placeholder creation, so no
\* later poll returns them again (the operations of a mode that a different
\* non-None mode replaces before the poll are not in the list any more and
\* are outside this statement)
C15_OneShotDelivery ==
    [][ /\ (obs' # obs /\ OnEventReturned /\ pending_commands # <<>>)
            => /\ obs'.returned = pending_commands
               /\ pending_commands' = <<>>
        /\ (obs' # obs /\ obs'.act = "return" /\ HasPlaceholderCreate(obs'.returned))
            => /\ obs'.entry = "on_event"
               /\ pending_commands # <<>>
               /\ obs'.returned = pending_commands
        /\ (obs' # obs /\ obs'.act = "return" /\ pending_commands = <<>>)
            => /\ ~HasPlaceholderCreate(obs'.returned)
               /\ pending_commands' = <<>> ]_vars

\* on_event has returned the queued placeholders, the todo list holds them and
\* nothing is queued any more
C15_Witness ==
    /\ obs.act = "return" /\ obs.entry = "on_event" /\ obs.pending
    /\ HasPlaceholderCreate(obs.returned)
    /\ pending_commands = <<>>
    /\ \E id \in DOMAIN mirror : IsGuidanceId(id)

\* C16: when a poll has processed a batch holding no Changed event (InitialScan
\* and Removed events only, or nothing), the guidance mode is the one the poll
\* began with and no returned operation deletes a placeholder
C16_GuidancePersistence ==
    (BatchReturned /\ ~HasChanged(obs.poll.drained))
    => /\ guidance_state = obs.poll.guidance_before
       /\ guidance_shown = (obs.poll.guidance_before # "None")
       /\ \A i \in 1..Len(obs.returned) : ~IsPlaceholderDelete(obs.returned[i])

\* a poll processed a batch of InitialScan or Removed events while guidance
\* was shown and its placeholders were in the todo list
C16_Witness ==
    /\ BatchReturned /\ ~HasChanged(obs.poll.drained)
    /\ obs.poll.drained # <<>>
    /\ obs.poll.guidance_before # "None"
    /\ PlaceholdersBefore # {}
    /\ guidance_state # "None"

\* ------------------------------------------------------- watcher failure
WatchSetupFailed == watcher.st = "exited"
ErrorGuidanceQueued ==
    \E explanation \in {<<"<error>">>} :
        pending_commands = create_error_guidance(<<"CLAUDE TASKS - Watcher Failed">>,
                                                 explanation,
                                                 <<"Restart totui to retry">>)
ErrorGuidanceShown == GUIDANCE_ERROR_HEADER_ID \in DOMAIN mirror

\* C17: once setting up the watch has failed (the debouncer could not be
\* created or the directory could not be registered) and on_config_loaded has
\* returned, the guidance mode is Error and the error placeholders, with their
\* recovery action, are queued or have been delivered
C17_WatchFailureSurfaced ==
    (WatchSetupFailed /\ pc = "idle")
    => /\ guidance_state = "Error"
       /\ ErrorGuidanceQueued \/ ErrorGuidanceShown

\* ------------------------------------------------------------ staleness
Checked == call.fn = "check_staleness"
ElapsedSinceUpdate == call.now - call.recorded_at
ThresholdSeconds == call.threshold_minutes * 60

\* C18: a tracker on which record_update was never called reports no
\* staleness, whatever its threshold and the time elapsed, and is not
\* tracking; once record_update was called the tracker is tracking for good
C18_UntrackedNeverStale ==
    call.fn # "none"
    => /\ (Checked /\ ~call.recorded) => call.result = None
       /\ StalenessTracker_is_tracking(call.tracker) = call.recorded

\* an untracked tracker with threshold 0 was checked after time had passed
C18_Witness ==
    /\ Checked /\ ~call.recorded
    /\ call.threshold_minutes = 0 /\ call.now > 0
    /\ call.result = None

\* C19: a tracking tracker that is checked reports the elapsed time when the
\* time since the latest record_update is strictly more than the threshold,
\* and nothing otherwise; so with threshold 0 any positive elapsed time is
\* stale, and right after a record_update the tracker is fresh
C19_StaleExactlyPastThreshold ==
    (Checked /\ call.recorded)
    => call.result = IF ElapsedSinceUpdate > ThresholdSeconds
                     THEN Some(ElapsedSinceUpdate) ELSE None

\* a tracker with a positive threshold that was updated a second time, later
\* than its creation, is checked when exactly the threshold has elapsed
C19_Witness ==
    /\ Checked /\ call.recorded
    /\ call.recorded_at > 0 /\ ThresholdSeconds > 0
    /\ ElapsedSinceUpdate = ThresholdSeconds
    /\ call.result = None

\* ---------------------------------------------------- event translation
Translated == call.fn = "translate_event"
\* the file name ends in ".json" and has something before the dot
EndsInDotJson(path) ==
    /\ Len(path) >= 3
    /\ path[Len(path)] = "json" /\ path[Len(path) - 1] = "."
    /\ path[Len(path) - 2] # "/"

\* C21: a notification is translated to an event only if its first path
\* ends in .json; then Create and Modify give Changed(first path), Remove
\* gives Removed(first path), and every other kind gives nothing; a
\* notification without a path gives nothing
C21_EventTranslation ==
    Translated
    => LET event == call.event
           json == Len(event.paths) > 0 /\ EndsInDotJson(event.paths[1])
       IN  call.result =
              IF json /\ event.kind \in {"Create", "Modify"}
              THEN Some([type |-> "FileChanged", path |-> event.paths[1]])
              ELSE IF json /\ event.kind = "Remove"
              THEN Some([type |-> "FileRemoved", path |-> event.paths[1]])
              ELSE None

\* a Create notification whose first path is no .json file and whose second
\* path is one was dropped
C21_Witness ==
    /\ Translated
    /\ call.event.kind = "Create"
    /\ Len(call.event.paths) = 2
    /\ ~EndsInDotJson(call.event.paths[1]) /\ EndsInDotJson(call.event.paths[2])
    /\ call.result = None

\* ------------------------------------------------------------- shutdown
InShutdown == call.fn # "none" /\ call.caller # "idle"
ShutdownReturned == call.fn = "returned"

\* C22: every shutdown that is entered returns; when one has returned the
\* flag is set, the thread has exited and the watch is released; and a
\* shutdown that finds the JoinHandle taken never waits
C22_CooperativeShutdown ==
    /\ InShutdown ~> ShutdownReturned
    /\ [](ShutdownReturned
            => /\ call.shutdown_flag
               /\ call.worker = "exited"
               /\ ~call.watching
               /\ ~call.thread_handle)
    /\ [](InShutdown /\ call.shutdowns > 1 => ~call.blocked /\ ~call.took)

\* the second shutdown has returned at once, after the first one had to wait
\* in join for the thread
C22_Witness ==
    /\ ShutdownReturned
    /\ call.shutdowns = 2
    /\ ~call.took /\ ~call.blocked
    /\ call.waited

\* ------------------------------------------------ best-effort source read
Scanned == call.fn = "scan_tasks_directory"
IsJsonName(name) ==
    Len(name) >= 3 /\ name[Len(name)] = "json" /\ name[Len(name) - 1] = "."
\* the well-formed records in the .json files of the scanned directory
WellFormedRecords ==
    IF call.directory = NoDirectory THEN {}
    ELSE {call.directory.entries[name].task :
            name \in {m \in DOMAIN call.directory.entries :
                        IsJsonName(m) /\ call.directory.entries[m].kind = "task"}}

\* C23: a scan returns a list, holding each well-formed record of a .json
\* file of the directory once and nothing else, whatever else the directory
\* holds; for a directory that does not exist the list is empty
C23_BestEffortRead ==
    Scanned
    => /\ RangeOf(call.result) = WellFormedRecords
       /\ Len(call.result) = Cardinality(WellFormedRecords)
       /\ call.directory = NoDirectory => call.result = <<>>

\* a well-formed record was returned from a directory whose first entry is a
\* .json file that does not parse and that holds a well-formed file of
\* another extension
C23_Witness ==
    /\ Scanned
    /\ call.directory # NoDirectory
    /\ Len(call.order) >= 3
    /\ call.directory.entries[call.order[1]].kind \in {"malformed", "unreadable"}
    /\ IsJsonName(call.order[1])
    /\ \E name \in DOMAIN call.directory.entries :
         ~IsJsonName(name) /\ call.directory.entries[name].kind = "task"
    /\ Len(call.result) = 1

\* ------------------------------------------------------- header first
\* C24: in the list a poll returns, every CreateItem placed under the header
\* of the tasklist comes after the CreateHeader, in this list or in an
\* earlier one: the downstream list holds the header when the item is created
C24_HeaderFirst ==
    BatchReturned =>
        \A i \in 1..Len(obs.returned) :
            (IsCreateItem(obs.returned[i])
                /\ obs.returned[i].parent_id = Some(header_id(TasklistId)))
            => header_id(TasklistId) \in
                  DOMAIN ApplyCommands(obs.poll.mirror_before,
                                       SubSeq(obs.returned, 1, i - 1))

\* ----------------------------------------------------------- drain all
DrainBegins == pc = "idle" /\ pc' = "process"

\* C25: the drain of a poll takes every event the channel holds, in channel
\* order, and leaves the channel empty, also when it holds none; when the
\* poll returns it has processed exactly the drained events, in that order
C25_DrainAll ==
    /\ [][DrainBegins => /\ poll'.drained = rx[1]
                         /\ events' = rx[1]
                         /\ rx' = Some(<<>>)]_vars
    /\ [](BatchReturned => obs.poll.processed = obs.poll.drained)
    /\ [](pc = "process" => poll.processed \o events = poll.drained)

\* a poll has processed a batch of three events, two of them for the same file
C25_Witness ==
    /\ BatchReturned
    /\ Len(obs.poll.drained) >= 3
    /\ obs.poll.processed = obs.poll.drained
    /\ \E i, j \in 1..Len(obs.poll.drained) :
         i < j /\ obs.poll.drained[i].type # "InitialScan"
               /\ obs.poll.drained[i].path = obs.poll.drained[j].path

\* ---------------------------------------------------- per-path ordering
\* the events for path p that have been observed and not processed yet, in
\* the order they will be processed: the rest of the batch, then the
\* channel, then the debounced notifications not yet translated
Awaiting(p, batch, channel, notifications) ==
    LET received == IF channel = None THEN <<>> ELSE channel[1]
        Translates(n) == translate_event(n) # None
        observed == SelectSeq(notifications, Translates)
        translated == [i \in 1..Len(observed) |-> translate_event(observed[i])[1]]
        IsFor(event) == event.type # "InitialScan" /\ event.path = p
    IN  SelectSeq(batch \o received \o translated, IsFor)

ProcessedFor(p, o) ==
    \/ o.act = "file_changed" /\ o.path = p
    \/ o.act = "file_removed" /\ o.path = p

ActOf(event) == IF event.type = "FileChanged" THEN "file_changed" ELSE "file_removed"

OrderKept(before, after, p, o) ==
    \/ after = before
    \/ /\ Len(after) = Len(before) + 1
       /\ SubSeq(after, 1, Len(before)) = before
       /\ ~ProcessedFor(p, o)
    \/ /\ before # <<>>
       /\ after = Tail(before)
       /\ ProcessedFor(p, o)
       /\ o.act = ActOf(Head(before))

\* C26: the events of one path are processed in the order they were
\* observed: a newly observed event goes behind the events of its path that
\* wait, and the event processed is the one that has waited longest; after
\* a Removed event is processed the id is not in known_tasks, and after a
\* Changed event whose file was read it is
C26_PerPathOrdering ==
    /\ [][\A p \in FilePaths :
            OrderKept(Awaiting(p, events, rx, fsq), Awaiting(p, events', rx', fsq'),
                      p, obs')]_vars
    /\ [](obs.act = "file_removed" => StemOf(obs.path) \notin known_tasks)
    /\ [](obs.act = "file_changed" /\ obs.read # None => StemOf(obs.path) \in known_tasks)

\* a Removed event of a file has been processed in the batch in which its
\* Changed event was, and the id is not known
C26_Witness ==
    /\ obs.act = "file_removed"
    /\ \E i, j \in 1..Len(poll.processed) :
         /\ i < j /\ j = Len(poll.processed)
         /\ poll.processed[i] = FileChanged(obs.path)
         /\ poll.processed[j] = FileRemoved(obs.path)
    /\ StemOf(obs.path) \notin known_tasks

\* ------------------------------------------------------ single producer
\* a step puts an event on the channel
Enqueues == rx # None /\ rx' # None /\ Len(rx'[1]) > Len(rx[1])
\* the step is the debouncer callback's: it takes a notification, and the
\* consumer does not move
WatcherStep == fsq # <<>> /\ fsq' = Tail(fsq) /\ pc' = pc
\* the step is on_config_loaded's last
SelectionStep == pc = "config_send" /\ pc' = "idle"

Reading == call.fn = "locks" /\ call.consumer # <<>> /\ Head(call.consumer).op = "io"
ReadingWhat == Head(call.consumer).what

\* C28: while the consumer reads a directory or a task file (the full scan,
\* the incremental read, the discovery scan, the scan after selection) or the
\* configuration, it does not hold the state mutex
C28_NoLockAcrossIO == Reading => call.held["state"] # "consumer"

\* the consumer runs the full scan of the InitialScan arm, between the two
\* times the arm locks the state, in a poll made by on_event
C28_Witness ==
    /\ Reading
    /\ ReadingWhat = "process_initial_scan_local"
    /\ call.callback = "on_event"
    /\ call.held["state"] = "none"
    /\ call.consumer[2] = Lock("state")

\* ------------------------------------------------------ one active source
\* the watcher threads that have been spawned and have not returned
AliveThreads ==
    {t \in {"new", "old"} :
        /\ watcher.st # "none"
        /\ LET thread == IF t = "new" THEN watcher ELSE watcher.old
           IN  thread.st \in {"starting", "watching"}}

\* C29: at every moment at most one watcher thread is alive: when the user
\* switches tasklists, the old watcher has been shut down and joined before
\* the new one exists
C29_OneActiveSource == Cardinality(AliveThreads) <= 1

\* ------------------------------------------------ full scan once per selection
\* how many InitialScan events wait on the channel
RECURSIVE InitialScansIn(_)
InitialScansIn(queue) ==
    IF queue = <<>> THEN 0
    ELSE (IF Head(queue) = InitialScan THEN 1 ELSE 0) + InitialScansIn(Tail(queue))
InitialScansWaiting(channel) == IF channel = None THEN 0 ELSE InitialScansIn(channel[1])

\* the config names the tasklist being watched, or none
NamesCurrentOrNone(config) ==
    \/ config = None
    \/ selected_tasklist # None /\ config = Some(FileNameOf(selected_tasklist[1]))

\* C30: a selection puts exactly one InitialScan on its channel, with its last
\* step, and no other step adds one; a config load that names the tasklist
\* already watched, or none, while a watcher exists starts no watcher, puts
\* nothing on the channel, keeps the channel and leaves the Correlation State
\* (and the rest of the plugin's state) as it is
C30_FullScanOncePerSelection ==
    [][/\ IF SelectionStep
          THEN InitialScansWaiting(rx) = 0 /\ InitialScansWaiting(rx') = 1
          ELSE InitialScansWaiting(rx') <= InitialScansWaiting(rx)
       /\ \A config \in ConfigValues :
            (watcher_handle # None /\ NamesCurrentOrNone(config) /\ ConfigLoaded(config))
                => /\ UNCHANGED <<rx, fsq, watcher, watcher_handle, pc>>
                   /\ UNCHANGED stateVars]_vars

\* the user has switched to the second tasklist after the first was scanned:
\* the second selection is complete, its channel holds its one InitialScan, and
\* a further config load naming the second tasklist is possible
C30_Witness ==
    /\ pc = "idle"
    /\ watcher_handle = Some(TasklistPath(<<"s2">>))
    /\ selected_tasklist = Some(TasklistPath(<<"s2">>))
    /\ known_tasks # {}
    /\ rx = Some(<<InitialScan>>)

\* ------------------------------------------------- wake-notifier ordering
RECURSIVE TranslatedOf(_)
\* the events a batch translates to, in order
TranslatedOf(batch) ==
    IF batch = <<>> THEN <<>>
    ELSE LET e == translate_event(Head(batch))
         IN  (IF e = None THEN <<>> ELSE <<e[1]>>) \o TranslatedOf(Tail(batch))

InCallback == call.fn = "debouncer_callback"

SyncPollReturned == obs.act = "return" /\ ~obs.pending /\ selected_tasklist # None
\* the operations the poll returned after those it produced
AppendedOps == SubSeq(obs.returned, Len(obs.produced) + 1, Len(obs.returned))
HeaderUpdateOf(staleness) == update_header_command(TasklistId, None, staleness)

\* C32: a poll appends the header update exactly when a tasklist is selected,
\* the staleness tracker is tracking, and the tracker reports stale or the
\* poll produced an operation; it appends nothing else and nothing while the
\* tracker is untracked
C32_HeaderGating ==
    SyncPollReturned =>
        IF is_tracking /\ (obs.staleness # None \/ obs.produced # <<>>)
        THEN AppendedOps = <<HeaderUpdateOf(obs.staleness)>>
        ELSE AppendedOps = <<>>

\* ------------------------------------------- no update of a never-created item
IsHeaderId(id) == id[1] = "claude-header-"

RECURSIVE UpdatesOnlyCreated(_, _)
\* every UpdateTodo of a task item in cmds addresses an item that the list m,
\* with the commands before it applied, holds: it was created and has not
\* been deleted since
UpdatesOnlyCreated(m, cmds) ==
    IF cmds = <<>> THEN TRUE
    ELSE /\ (Head(cmds).op = "UpdateTodo" /\ ~IsHeaderId(Head(cmds).id))
                => Head(cmds).id \in DOMAIN m
         /\ UpdatesOnlyCreated(ApplyCommand(m, Head(cmds)), Tail(cmds))

\* C33: over selections, switches, watcher events and polls, an UpdateTodo
\* is returned for a task item only if a CreateTodo for that item was returned
\* earlier and no DeleteTodo for it since
C33_NoUpdateOfNeverCreated ==
    BatchReturned => UpdatesOnlyCreated(obs.poll.mirror_before, obs.returned)

\* ------------------------------------- placeholder creates and their clearing
HasPlaceholderDelete(cmds) == \E i \in 1..Len(cmds) : IsPlaceholderDelete(cmds[i])

\* C34: through either entry point, a poll returns the placeholder deletions
\* of a guidance clear only when no placeholder creation is still queued in
\* pending_commands; once the guidance mode is None no placeholder creation
\* is queued, so none is returned later
C34_NoCreateAfterClear ==
    /\ (obs.act = "return" /\ HasPlaceholderDelete(obs.returned))
            => ~HasPlaceholderCreate(pending_commands)
    /\ guidance_state = "None" => ~HasPlaceholderCreate(pending_commands)

\* -------------------------------------- no event lost to guidance delivery
\* the step is a poll's return of the queued pending commands
PendingReturns == pending_commands # <<>> /\ obs' # obs /\ obs'.act = "return" /\ obs'.pending
Waiting(channel) == IF channel = None THEN <<>> ELSE channel[1]
StartsWith(s, prefix) ==
    Len(prefix) <= Len(s) /\ SubSeq(s, 1, Len(prefix)) = prefix

\* C35: a poll that returns the queued pending commands leaves the channel and
\* the batch as they are; the events waiting on the channel of the selected
\* tasklist stay on it, in order and ahead of later ones, until a poll drains
\* them, that poll takes all of them into its batch, and every event of a
\* batch is processed before the poll returns
C35_NoEventLostToGuidance ==
    /\ [][PendingReturns => (rx' = rx /\ events' = events /\ pc' = "idle")]_vars
    /\ [][IF DrainBegins
          THEN events' = Waiting(rx)
          ELSE StartsWith(Waiting(rx'), Waiting(rx))]_vars
    /\ [][(pc = "process" /\ pc' = "idle") => events = <<>>]_vars

\* on_event has returned the placeholders of the empty tasklist while
\* InitialScan and a Changed event were waiting, and they still wait
C35_Witness ==
    /\ obs.act = "return" /\ obs.pending
    /\ rx # None
    /\ Len(rx[1]) = 2
    /\ \E i \in 1..2 : rx[1][i] = InitialScan
    /\ \E i \in 1..2 : rx[1][i].type = "FileChanged"

\* ------------------------------------------------------ idle poll is a no-op
\* a poll found nothing queued and drained nothing, and has returned
IdlePollReturned ==
    /\ obs.act = "return" /\ ~obs.pending
    /\ obs.poll.running => obs.poll.drained = <<>>
TaskOps == {"CreateTodo", "DeleteTodo", "SetTodoMetadata"}
\* the poll's entry state, as far as the poll can change it
IdlePollFrame ==
    /\ obs.poll.running => guidance_state = obs.poll.guidance_before
    /\ \A i \in 1..Len(obs.returned) :
        /\ obs.returned[i].op \notin TaskOps
        /\ obs.returned[i].op = "UpdateTodo" => IsHeaderId(obs.returned[i].id)

\* C36: a poll that finds no pending command and drains no event leaves
\* known_tasks, the guidance mode, the selected tasklist and the staleness
\* tracker as they were, and returns no CreateTodo, no UpdateTodo of a task
\* item, no SetTodoMetadata and no DeleteTodo
C36_IdlePollNoOp ==
    /\ [](IdlePollReturned => IdlePollFrame)
    /\ [][(DrainBegins /\ Waiting(rx) = <<>>)
            => UNCHANGED <<known_tasks, guidance_state, guidance_shown,
                           selected_tasklist, is_tracking, pending_commands, mirror>>]_vars
    /\ [][(pc = "process" /\ pc' = "idle" /\ poll.drained = <<>>)
            => /\ UNCHANGED <<known_tasks, guidance_state, guidance_shown,
                              selected_tasklist, is_tracking, pending_commands>>
               /\ commands = <<>>]_vars
    /\ [][(obs' # obs /\ obs'.act = "return" /\ ~obs'.pending /\ ~obs'.poll.running)
            => /\ UNCHANGED <<known_tasks, guidance_state, guidance_shown,
                              selected_tasklist, is_tracking, pending_commands, mirror>>
               /\ obs'.returned = <<>>]_vars

\* an on_event poll with a tasklist selected and the tracker tracking found
\* the channel empty and returned the header update alone
C36_Witness ==
    /\ IdlePollReturned
    /\ obs.poll.running
    /\ is_tracking
    /\ known_tasks # {}
    /\ Len(obs.returned) = 1

\* --------------------------------------------------------- deadlock freedom
\* the order in which a thread may take a mutex while it holds another
LockRank(l) ==
    CASE l = "watcher_handle" -> 1
      [] l = "state" -> 2
      [] l = "rx" -> 3
      [] l = "tx" -> 4
      [] l = "notifier" -> 5
HeldBy(thread) == {l \in Locks : call.held[l] = thread}
\* the thread is about to take a mutex that does not come after those it holds
LocksOutOfOrder(thread, todo) ==
    /\ todo # <<>>
    /\ Head(todo).op = "lock"
    /\ \E h \in HeldBy(thread) : LockRank(h) >= LockRank(Head(todo).l)
InLocks == call.fn = "locks"

\* C37: every thread takes the mutexes in one order (watcher_handle, state,
\* rx, tx, notifier) and never one it holds; the consumer joins a watcher
\* thread only after signalling it; every callback of the host and every
\* debouncer callback that has begun returns, with no mutex left held
C37_DeadlockFreedom ==
    /\ [](InLocks => /\ ~LocksOutOfOrder("consumer", call.consumer)
                     /\ ~LocksOutOfOrder("debouncer", call.debouncer)
                     /\ (call.consumer # <<>> /\ Head(call.consumer) = JoinThread)
                            => call.old # "running"
                     /\ call.consumer = <<>> => HeldBy("consumer") = {}
                     /\ call.debouncer = <<>> => HeldBy("debouncer") = {})
    /\ (InLocks /\ call.consumer # <<>>) ~> (InLocks /\ call.consumer = <<>>)
    /\ (InLocks /\ call.debouncer # <<>>) ~> (InLocks /\ call.debouncer = <<>>)

\* on_config_loaded waits, holding the watcher_handle mutex, for the old
\* watcher thread to exit while the debouncer callback holds the notifier
C37_Witness ==
    /\ InLocks
    /\ call.consumer # <<>> /\ Head(call.consumer) = JoinThread
    /\ call.old = "stopping"
    /\ call.held["watcher_handle"] = "consumer"
    /\ call.held["notifier"] = "debouncer"

\* ---------------------------------------------------------- cycle soundness
HierarchyBuilt == call.fn = "build_hierarchy"
TaskIdsOf(tasks) == {tasks[i].id : i \in 1..Len(tasks)}

\* C38: for every task list and every input order, every id in the cyclic set
\* lies on a blocked-by cycle: a task that only depends on a cyclic task, or
\* that a cyclic task depends on, or that the same traversal visits, is not in
\* the set, and it does not carry the circular-dependency warning
C38_CycleSoundness ==
    HierarchyBuilt =>
        /\ \A id \in call.hierarchy.cyclic_tasks :
            id \in TaskIdsOf(call.tasks) /\ OnCycle(call.tasks, id)
        /\ \A id \in DOMAIN call.hierarchy.annotations :
            call.hierarchy.annotations[id] = <<"U+26A0 Circular dependency">>
                => OnCycle(call.tasks, id)

\* two tasks block each other; the third is blocked by one of them and does
\* not lie on a cycle, and it is visited first
C38_Witness ==
    /\ HierarchyBuilt
    /\ Len(call.tasks) = 3
    /\ Cardinality(call.hierarchy.cyclic_tasks) = 2
    /\ ~OnCycle(call.tasks, call.tasks[1].id)
    /\ \E b \in call.hierarchy.cyclic_tasks : b \in RangeOf(call.tasks[1].blocked_by)
    /\ call.tasks[1].id \notin call.hierarchy.cyclic_tasks

\* ------------------------------------------ consistent addressing of a file
\* the item a command addresses
ItemOf(cmd) ==
    CASE cmd.op = "CreateTodo" -> cmd.temp_id[1]
      [] cmd.op = "SetTodoMetadata" -> cmd.todo_id
      [] OTHER -> cmd.id
\* the task items the commands emitted for the file address
ItemsAddressed ==
    {ItemOf(call.ops[i]) : i \in 1..Len(call.ops)} \ {header_id(<<"s1">>)}

\* C39: the CreateTodo emitted when a file first appears and the UpdateTodo
\* and DeleteTodo emitted for its later Changed and Removed events address
\* one and the same item, also when the record id differs from the file
\* name's stem, and an id in known_tasks is the id of that item
C39_ConsistentAddressing ==
    call.fn = "file" =>
        /\ Cardinality(ItemsAddressed) <= 1
        /\ \A id \in call.known : ItemsAddressed = {task_todo_id(<<"s1">>, id)}

\* -------------------------------------------------- guidance flag consistency
GuidanceModes == {"None", "NoTasklists", "EmptyTasklist", "Error"}

\* C40: in every reachable state guidance_state is one of the four modes and
\* guidance_shown is true exactly when the mode is not None
C40_GuidanceFlagConsistency ==
    /\ guidance_state \in GuidanceModes
    /\ guidance_shown <=> guidance_state # "None"

\* a poll has cleared the guidance that an earlier config load had set: both
\* the mode and the flag are back to their defaults
C40_Witness ==
    /\ BatchReturned
    /\ obs.poll.guidance_before = "EmptyTasklist"
    /\ guidance_state = "None"
    /\ ~guidance_shown

====
